---------------------------- MODULE Spec2Model ----------------------------
(***************************************************************************)
(* Timer subsystem of the LIM (MAC link/management engine) of the prima    *)
(* WLAN driver, drivers/staging/prima/CORE/MAC/src/pe/lim/limTimerUtils.c, *)
(* and the reference-counted debug clock of arch/arm/mach-msm/qdss.c.      *)
(*                                                                         *)
(* Build modelled: ANI_PRODUCT_TYPE_CLIENT, WLAN_SOFTAP_FEATURE,           *)
(* WLAN_FEATURE_VOWIFI_11R and WLAN_FEATURE_P2P defined;                   *)
(* ANI_PRODUCT_TYPE_AP, ANI_AP_SDK_OPT and ANI_OS_TYPE_RTAI_LINUX not.     *)
(*                                                                         *)
(* The time source (tx_timer_create / activate / deactivate / change), the *)
(* configuration store (wlan_cfgGetInt), the message queue (limPostMsgApi) *)
(* and the pre-auth table helpers are called by limTimerUtils.c but live   *)
(* in other files; they are modelled from the design document.             *)
(***************************************************************************)
EXTENDS Integers, Sequences, FiniteSets, TLC

VARIABLES
    timers,   \* every TX_TIMER object, indexed by <<name, index>>
    lim,      \* the fields of pMac->lim / pMac->sch the timer code reads and writes
    cfg,      \* the configuration store queried through wlan_cfgGetInt
    msgQ,     \* the LIM message queue fed by limPostMsgApi
    last,     \* the call that produced this state: operation, argument, the
              \* time-source calls it made (in order) and what it logged
    started,  \* limCreateTimers has run
    ops,      \* calls of the management engine made so far, where they are counted
    qdss      \* struct qdss_ctx, the clock level the RPM holds, for every
              \* thread the call of qdss.c it is inside and what it keeps
              \* between its test and its store, and the number of callers
              \* that hold the clock

vars == <<timers, lim, cfg, msgQ, last, started, ops, qdss>>

---------------------------------------------------------------------------
(* Program constants *)

LIM_BACKGROUND_SCAN_PERIOD_DEFAULT_MS == 5000
LIM_CHANNEL_SWITCH_TIMER_TICKS == 1
LIM_QUIET_TIMER_TICKS == 100
LIM_QUIET_BSS_TIMER_TICK == 100
LIM_KEEPALIVE_TIMER_MS == 3000
\* the literal used by the eLIM_KEEPALIVE_TIMER case
KEEPALIVE_RECONFIG_DEFAULT_MS == 3000
\* the literal of the FT pre-auth response and remain-on-channel timers
FIXED_TIMEOUT_MS == 1000
\* sysDef.h: one tick is 10 ms; SYS_MS_TO_TICKS(x) is x / SYS_TICK_DUR_MS
SYS_TICK_DUR_MS == 10
\* limTypes.h: period of the disassociate-throttle timer
LIM_HASH_MISS_TIMER_MS == 10000
\* half of a tANI_U32 word: 2^16
U16 == 65536

(* Bounds of the model *)

\* pMac->lim.maxStation: capacity of the CNF_WAIT pool
NumStations == 2
\* configuration values are multiples of CfgStepMs, 0 .. MaxCfgSteps steps
CfgStepMs == 7
MaxCfgSteps == 3
\* tick values stored by other LIM code (quiet period, channel switch)
MaxStoredTicks == 2
\* capacity of the LIM message queue
MaxQueue == 2
\* calls of the management engine explored after start-up
MaxOps == 2
\* expiries counted per activation
MaxFires == 2
\* beacons counted between two heartbeat checks
MaxBeacons == 1

---------------------------------------------------------------------------
(* Timer identities *)

Singletons ==
    { "gLimMinChannelTimer", "gLimMaxChannelTimer", "gLimChannelSwitchTimer",
      "gLimQuietTimer", "gLimQuietBssTimer", "gLimJoinFailureTimer",
      "gLimAssocFailureTimer", "gLimReassocFailureTimer", "gLimAddtsRspTimer",
      "gLimAuthFailureTimer", "gLimHeartBeatTimer", "gLimProbeAfterHBTimer",
      "gLimBackgroundScanTimer", "gLimSendDisassocFrameThresholdTimer",
      "gLimKeepaliveTimer", "gLimUpdateOlbcCacheTimer", "gLimFTPreAuthRspTimer",
      "gLimRemainOnChannelTimer" }

T(name) == <<name, 0>>

\* Index values a caller can pass: the pool's slots and the memory just past them.
StaIds == 0 .. NumStations

CnfWait(i) == <<"gpLimCnfWaitTimer", i>>
AuthRsp(i) == <<"gLimPreAuthTimerTable", i>>

TimerIds ==
    { T(n) : n \in Singletons } \cup { CnfWait(i) : i \in StaIds }
        \cup { AuthRsp(i) : i \in StaIds }

---------------------------------------------------------------------------
(* Unit conversion *)

SYS_MS_TO_TICKS(x) == x \div SYS_TICK_DUR_MS

\* 32-bit unsigned arithmetic
\* x modulo 2^32, computed on the two 16-bit halves
Wrap32(x) == ((x \div U16) % U16) * U16 + (x % U16)


---------------------------------------------------------------------------
(* The time source.  A TX_TIMER holds its initial schedule time and its    *)
(* reschedule time (both kept here in ticks), the expiry callback with its *)
(* expiration input, and whether it is running.  armed is the interval   *)
(* the pending expiry was scheduled with, fires the number of expiries     *)
(* since the timer was last activated (it stops counting at MaxFires).     *)

NoTimer ==
    [ created |-> FALSE, active |-> FALSE, duration |-> 0, reload |-> 0,
      armed |-> 0, fires |-> 0, handler |-> "none", param |-> <<"int", 0>>,
      sessionId |-> 0 ]

tx_timer_create(handler, param, initTicks, reschedTicks, autoActivate) ==
    [ created |-> TRUE, active |-> autoActivate, duration |-> initTicks,
      reload |-> reschedTicks,
      armed |-> IF autoActivate THEN initTicks ELSE 0, fires |-> 0,
      handler |-> handler, param |-> param, sessionId |-> 0 ]

\* a deactivate that leaves a running timer running
tx_timer_deactivate_ignored(t) == t

\* deactivate: Active -> Inactive; an uncreated or already inactive timer is
\* reported as an error and left as it is
DeactivateSucceeds(t) == t.created /\ t.active
tx_timer_deactivate(t) ==
    IF DeactivateSucceeds(t) THEN [t EXCEPT !.active = FALSE, !.armed = 0] ELSE t

\* change: only legal on a created, deactivated timer
ChangeSucceeds(t) == t.created /\ ~t.active
tx_timer_change(t, initTicks, reschedTicks) ==
    IF ChangeSucceeds(t)
    THEN [t EXCEPT !.duration = initTicks, !.reload = reschedTicks]
    ELSE t

\* activate: schedules the first expiry after the initial schedule time
ActivateSucceeds(t) == t.created /\ ~t.active
tx_timer_activate(t) ==
    IF ActivateSucceeds(t) THEN [t EXCEPT !.active = TRUE, !.armed = t.duration, !.fires = 0] ELSE t

---------------------------------------------------------------------------
(* A handler runs on a working copy of the state: the timers, the LIM      *)
(* fields, the time-source calls made so far and the messages logged.      *)

Begin == [ timers |-> timers, lim |-> lim, trace |-> <<>>, log |-> <<>> ]

limLog(s, msg) == [s EXCEPT !.log = Append(@, msg)]

\* tx_timer_deactivate(&timer) != TX_SUCCESS  =>  limLog(msg)
Deactivate(s, id, msg) ==
    LET ok == DeactivateSucceeds(s.timers[id])
        s1 == [s EXCEPT !.timers[id] = tx_timer_deactivate(@),
                        !.trace = Append(@, <<"deactivate", id, ok>>)]
    IN  IF ok THEN s1 ELSE limLog(s1, msg)

\* tx_timer_change(&timer, val, resched) != TX_SUCCESS  =>  limLog(msg)
Change(s, id, initTicks, reschedTicks, msg) ==
    LET ok == ChangeSucceeds(s.timers[id])
        s1 == [s EXCEPT !.timers[id] = tx_timer_change(@, initTicks, reschedTicks),
                        !.trace = Append(@, <<"change", id, ok>>)]
    IN  IF ok THEN s1 ELSE limLog(s1, msg)

\* tx_timer_activate(&timer) != TX_SUCCESS  =>  limLog(msg)
Activate(s, id, msg) ==
    LET ok == ActivateSucceeds(s.timers[id])
        s1 == [s EXCEPT !.timers[id] = tx_timer_activate(@),
                        !.trace = Append(@, <<"activate", id, ok>>)]
    IN  IF ok THEN s1 ELSE limLog(s1, msg)

---------------------------------------------------------------------------
(* The configuration store.  wlan_cfgGetInt(key, &val) writes val only     *)
(* when the key is found; on failure val keeps what it held before.        *)

CfgKeys ==
    { "WNI_CFG_ACTIVE_MINIMUM_CHANNEL_TIME", "WNI_CFG_ACTIVE_MAXIMUM_CHANNEL_TIME",
      "WNI_CFG_JOIN_FAILURE_TIMEOUT", "WNI_CFG_ASSOCIATION_FAILURE_TIMEOUT",
      "WNI_CFG_REASSOCIATION_FAILURE_TIMEOUT", "WNI_CFG_ADDTS_RSP_TIMEOUT",
      "WNI_CFG_AUTHENTICATE_FAILURE_TIMEOUT", "WNI_CFG_BEACON_INTERVAL",
      "WNI_CFG_PROBE_AFTER_HB_FAIL_TIMEOUT", "WNI_CFG_BACKGROUND_SCAN_PERIOD",
      "WNI_CFG_KEEPALIVE_TIMEOUT", "WNI_CFG_WT_CNF_TIMEOUT",
      "WNI_CFG_MAX_NUM_PRE_AUTH", "WNI_CFG_OLBC_DETECT_TIMEOUT",
      "WNI_CFG_HEART_BEAT_THRESHOLD", "WNI_CFG_AUTHENTICATE_RSP_TIMEOUT" }

Found(v) == [ok |-> TRUE, val |-> v]
NotFound == [ok |-> FALSE, val |-> 0]

wlan_cfgGetInt(key, old) == IF cfg[key].ok THEN cfg[key].val ELSE old

\* wlan_cfgGetInt(key, &val) != eSIR_SUCCESS  =>  limLog(msg)
LogCfg(s, key, msg) == IF cfg[key].ok THEN s ELSE limLog(s, msg)

---------------------------------------------------------------------------
(* limDeactivateAndChangeTimer: one operator per case of the switch.  Each *)
(* takes the working state and returns it after the case has run.          *)

\* a one-key case that changes the timer before it deactivates it
CfgOneShotCaseChangeFirst(s, name, key) ==
    LET val == wlan_cfgGetInt(key, 0)
        s1  == Change(s, T(name), SYS_MS_TO_TICKS(val), 0, "unable to change")
    IN  Deactivate(s1, T(name), "unable to deactivate")

\* the cases that read one configuration key: deactivate, look the value up
\* (val starts as 0), convert to ticks, change to a one-shot timer
CfgOneShotCase(s, name, key) ==
    LET s1  == Deactivate(s, T(name), "unable to deactivate")
        val == wlan_cfgGetInt(key, 0)
        s2  == LogCfg(s1, key, "could not retrieve value")
    IN  Change(s2, T(name), SYS_MS_TO_TICKS(val), 0, "unable to change")

\* the ADDTS case counting only the calls that stopped a running timer
AddtsRspCaseCountingStops(s) ==
    LET s1 == Deactivate(s, T("gLimAddtsRspTimer"), "Unable to deactivate AddtsRsp timer")
    IN  IF DeactivateSucceeds(s.timers[T("gLimAddtsRspTimer")])
        THEN [s1 EXCEPT !.lim.gLimAddtsRspTimerCount = Wrap32(@ + 1)]
        ELSE s1

\* case eLIM_ADDTS_RSP_TIMER
AddtsRspCase(s) ==
    LET s1 == [s EXCEPT !.lim.gLimAddtsRspTimerCount = Wrap32(@ + 1)]
    IN  Deactivate(s1, T("gLimAddtsRspTimer"), "Unable to deactivate AddtsRsp timer")

QuietWindow(l) ==
    l.quietState = "eLIM_QUIET_RUNNING" /\ l.gLimTriggerBackgroundScanDuringQuietBss

\* the min channel case converting the quiet duration as if it were ms
MinChannelCaseConverted(s) ==
    LET id == T("gLimMinChannelTimer")
        s1 == Deactivate(s, id, "Unable to deactivate min channel timer")
    IN  IF QuietWindow(s1.lim)
        THEN Change(s1, id, SYS_MS_TO_TICKS(s1.lim.quietDuration), 0,
                    "Unable to change min channel timer")
        ELSE IF s1.lim.gpLimMlmScanReq.present
             THEN Change(s1, id, SYS_MS_TO_TICKS(s1.lim.gpLimMlmScanReq.minChannelTime), 0,
                         "Unable to change min channel timer")
             ELSE limLog(s1, "gpLimMlmScanReq is NULL")

\* the min channel case falling back to 0 when there is no scan request
MinChannelCaseDefaulted(s) ==
    LET id == T("gLimMinChannelTimer")
        s1 == Deactivate(s, id, "Unable to deactivate min channel timer")
    IN  IF QuietWindow(s1.lim)
        THEN Change(s1, id, s1.lim.quietDuration, 0, "Unable to change min channel timer")
        ELSE IF s1.lim.gpLimMlmScanReq.present
             THEN Change(s1, id, SYS_MS_TO_TICKS(s1.lim.gpLimMlmScanReq.minChannelTime), 0,
                         "Unable to change min channel timer")
             ELSE Change(s1, id, 0, 0, "Unable to change min channel timer")

\* case eLIM_MIN_CHANNEL_TIMER
MinChannelCase(s) ==
    LET id == T("gLimMinChannelTimer")
        s1 == Deactivate(s, id, "Unable to deactivate min channel timer")
    IN  IF QuietWindow(s1.lim)
        THEN Change(s1, id, s1.lim.quietDuration, 0, "Unable to change min channel timer")
        ELSE IF s1.lim.gpLimMlmScanReq.present
             THEN Change(s1, id, SYS_MS_TO_TICKS(s1.lim.gpLimMlmScanReq.minChannelTime), 0,
                         "Unable to change min channel timer")
             ELSE limLog(s1, "gpLimMlmScanReq is NULL")

\* case eLIM_MAX_CHANNEL_TIMER: val stays 0 when the role is AP
MaxChannelCase(s) ==
    LET id == T("gLimMaxChannelTimer")
        s1 == Deactivate(s, id, "Unable to deactivate max channel timer")
    IN  IF s1.lim.gLimSystemRole # "eLIM_AP_ROLE"
        THEN IF QuietWindow(s1.lim)
             THEN Change(s1, id, s1.lim.quietDuration, 0, "Unable to change max channel timer")
             ELSE IF s1.lim.gpLimMlmScanReq.present
                  THEN Change(s1, id, SYS_MS_TO_TICKS(s1.lim.gpLimMlmScanReq.maxChannelTime),
                              0, "Unable to change max channel timer")
                  ELSE limLog(s1, "gpLimMlmScanReq is NULL")
        ELSE Change(s1, id, 0, 0, "Unable to change max channel timer")

\* case eLIM_HEART_BEAT_TIMER
HeartBeatCase(s) ==
    LET id   == T("gLimHeartBeatTimer")
        s1   == Deactivate(s, id, "unable to deactivate Heartbeat timer")
        val  == wlan_cfgGetInt("WNI_CFG_BEACON_INTERVAL", 0)
        s2   == LogCfg(s1, "WNI_CFG_BEACON_INTERVAL", "could not retrieve BEACON_INTERVAL value")
        val1 == wlan_cfgGetInt("WNI_CFG_HEART_BEAT_THRESHOLD", 0)
        s3   == LogCfg(s2, "WNI_CFG_HEART_BEAT_THRESHOLD",
                       "could not retrieve heartbeat failure value")
    IN  Change(s3, id, SYS_MS_TO_TICKS(Wrap32(val * val1)), 0,
               "unable to change HeartBeat timer")

\* the keepalive case without the rounding up to a whole tick
KeepaliveCaseFloor(s) ==
    LET id  == T("gLimKeepaliveTimer")
        s1  == Deactivate(s, id, "unable to deactivate KeepaliveTimer timer")
        val == wlan_cfgGetInt("WNI_CFG_KEEPALIVE_TIMEOUT", 0)
        ms  == IF val = 0 THEN KEEPALIVE_RECONFIG_DEFAULT_MS ELSE val
        s3  == [s1 EXCEPT !.lim.keepAlive = (val # 0)]
        t   == SYS_MS_TO_TICKS(ms)
    IN  Change(s3, id, t, t, "unable to change KeepaliveTimer timer")

\* case eLIM_KEEPALIVE_TIMER
KeepaliveCase(s) ==
    LET id  == T("gLimKeepaliveTimer")
        s1  == Deactivate(s, id, "unable to deactivate KeepaliveTimer timer")
        val == wlan_cfgGetInt("WNI_CFG_KEEPALIVE_TIMEOUT", 0)
        s2  == LogCfg(s1, "WNI_CFG_KEEPALIVE_TIMEOUT", "could not retrieve keepalive timeout value")
        ms  == IF val = 0 THEN KEEPALIVE_RECONFIG_DEFAULT_MS ELSE val
        s3  == [s2 EXCEPT !.lim.keepAlive = (val # 0)]
        t   == SYS_MS_TO_TICKS(Wrap32(ms + SYS_TICK_DUR_MS - 1))
    IN  Change(s3, id, t, t, "unable to change KeepaliveTimer timer")

\* case eLIM_BACKGROUND_SCAN_TIMER
BackgroundScanCase(s) ==
    LET id  == T("gLimBackgroundScanTimer")
        s1  == Deactivate(s, id, "unable to deactivate BackgroundScanTimer timer")
        val == wlan_cfgGetInt("WNI_CFG_BACKGROUND_SCAN_PERIOD", 0)
        s2  == LogCfg(s1, "WNI_CFG_BACKGROUND_SCAN_PERIOD",
                      "could not retrieve Background scan period value")
        ms  == IF val = 0 THEN LIM_BACKGROUND_SCAN_PERIOD_DEFAULT_MS ELSE val
        s3  == [s2 EXCEPT !.lim.gLimBackgroundScanDisable = (val = 0)]
        t   == SYS_MS_TO_TICKS(ms)
    IN  Change(s3, id, t, t, "unable to change BackgroundScanTimer timer")

\* the channel switch case converting the stored timeout as if it were ms
ChannelSwitchCaseConverted(s) ==
    LET id == T("gLimChannelSwitchTimer")
        ok == DeactivateSucceeds(s.timers[id])
        s1 == Deactivate(s, id, "tx_timer_deactivate failed!")
    IN  IF ~ok THEN s1
        ELSE Change(s1, id, SYS_MS_TO_TICKS(s1.lim.switchTimeoutValue), 0,
                    "tx_timer_change failed")

\* case eLIM_CHANNEL_SWITCH_TIMER: returns when the deactivate fails
ChannelSwitchCase(s) ==
    LET id == T("gLimChannelSwitchTimer")
        ok == DeactivateSucceeds(s.timers[id])
        s1 == Deactivate(s, id, "tx_timer_deactivate failed!")
    IN  IF ~ok THEN s1
        ELSE Change(s1, id, s1.lim.switchTimeoutValue, 0, "tx_timer_change failed")

\* the quiet BSS case stopping the quiet timer as well
QuietBssCaseOnQuiet(s) ==
    LET id == T("gLimQuietBssTimer")
        s1 == Deactivate(s, T("gLimQuietTimer"), "Unable to deactivate gLimQuietTimer!")
        s2 == Deactivate(s1, id, "Unable to de-activate gLimQuietBssTimer!")
    IN  Change(s2, id, s2.lim.quietDuration, 0, "Unable to change gLimQuietBssTimer!")

\* case eLIM_QUIET_BSS_TIMER: quietDuration is used as it is
QuietBssCase(s) ==
    LET id == T("gLimQuietBssTimer")
        s1 == Deactivate(s, id, "Unable to de-activate gLimQuietBssTimer!")
    IN  Change(s1, id, s1.lim.quietDuration, 0, "Unable to change gLimQuietBssTimer!")

\* case eLIM_QUIET_TIMER: quietTimeoutValue goes through SYS_MS_TO_TICKS
QuietCase(s) ==
    LET id == T("gLimQuietTimer")
        s1 == Deactivate(s, id, "Unable to deactivate gLimQuietTimer!")
    IN  Change(s1, id, SYS_MS_TO_TICKS(s1.lim.quietTimeoutValue), 0,
               "Unable to change gLimQuietTimer!")

\* cases eLIM_FT_PREAUTH_RSP_TIMER and eLIM_REMAIN_CHN_TIMER: val = 1000
FixedCase(s, name) ==
    LET s1 == Deactivate(s, T(name), "Unable to deactivate")
    IN  Change(s1, T(name), SYS_MS_TO_TICKS(FIXED_TIMEOUT_MS), 0, "Unable to change")

TimerEnum ==
    { "eLIM_ADDTS_RSP_TIMER", "eLIM_MIN_CHANNEL_TIMER", "eLIM_MAX_CHANNEL_TIMER",
      "eLIM_JOIN_FAIL_TIMER", "eLIM_AUTH_FAIL_TIMER", "eLIM_ASSOC_FAIL_TIMER",
      "eLIM_REASSOC_FAIL_TIMER", "eLIM_HEART_BEAT_TIMER", "eLIM_PROBE_AFTER_HB_TIMER",
      "eLIM_KEEPALIVE_TIMER", "eLIM_BACKGROUND_SCAN_TIMER", "eLIM_CHANNEL_SWITCH_TIMER",
      "eLIM_LEARN_DURATION_TIMER", "eLIM_QUIET_BSS_TIMER", "eLIM_QUIET_TIMER",
      "eLIM_FT_PREAUTH_RSP_TIMER", "eLIM_REMAIN_CHN_TIMER" }

\* the switch of limDeactivateAndChangeTimer
DeactivateAndChange(s, timerId) ==
    CASE timerId = "eLIM_ADDTS_RSP_TIMER" -> AddtsRspCase(s)
      [] timerId = "eLIM_MIN_CHANNEL_TIMER" -> MinChannelCase(s)
      [] timerId = "eLIM_MAX_CHANNEL_TIMER" -> MaxChannelCase(s)
      [] timerId = "eLIM_JOIN_FAIL_TIMER" ->
            CfgOneShotCase(s, "gLimJoinFailureTimer", "WNI_CFG_JOIN_FAILURE_TIMEOUT")
      [] timerId = "eLIM_AUTH_FAIL_TIMER" ->
            CfgOneShotCase(s, "gLimAuthFailureTimer", "WNI_CFG_AUTHENTICATE_FAILURE_TIMEOUT")
      [] timerId = "eLIM_ASSOC_FAIL_TIMER" ->
            CfgOneShotCase(s, "gLimAssocFailureTimer", "WNI_CFG_ASSOCIATION_FAILURE_TIMEOUT")
      [] timerId = "eLIM_REASSOC_FAIL_TIMER" ->
            CfgOneShotCase(s, "gLimReassocFailureTimer", "WNI_CFG_REASSOCIATION_FAILURE_TIMEOUT")
      [] timerId = "eLIM_HEART_BEAT_TIMER" -> HeartBeatCase(s)
      [] timerId = "eLIM_PROBE_AFTER_HB_TIMER" ->
            CfgOneShotCase(s, "gLimProbeAfterHBTimer", "WNI_CFG_PROBE_AFTER_HB_FAIL_TIMEOUT")
      [] timerId = "eLIM_KEEPALIVE_TIMER" -> KeepaliveCase(s)
      [] timerId = "eLIM_BACKGROUND_SCAN_TIMER" -> BackgroundScanCase(s)
      [] timerId = "eLIM_CHANNEL_SWITCH_TIMER" -> ChannelSwitchCase(s)
      [] timerId = "eLIM_QUIET_BSS_TIMER" -> QuietBssCase(s)
      [] timerId = "eLIM_QUIET_TIMER" -> QuietCase(s)
      [] timerId = "eLIM_FT_PREAUTH_RSP_TIMER" -> FixedCase(s, "gLimFTPreAuthRspTimer")
      [] timerId = "eLIM_REMAIN_CHN_TIMER" -> FixedCase(s, "gLimRemainOnChannelTimer")
      [] OTHER -> s

---------------------------------------------------------------------------
(* limCreateTimers.  The working state also carries the local cfgValue,    *)
(* whether the function has returned, and the creation the time source     *)
(* (or the allocator) refuses in this run, if any.                         *)

NoFault == <<"none", 0>>
AllocFault == <<"palAllocateMemory", 0>>

\* a word whose content the program never set: the model's stand-ins for it
Uninitialised == { 0, CfgStepMs }

\* wlan_cfgGetInt(key, &cfgValue), logging when the key is not found
GetCfgValue(s, key, msg) ==
    IF s.returned THEN s
    ELSE LogCfg([s EXCEPT !.cfgValue = wlan_cfgGetInt(key, @)], key, msg)

\* cfgValue = SYS_MS_TO_TICKS(cfgValue)
ToTicks(s) == [s EXCEPT !.cfgValue = SYS_MS_TO_TICKS(@)]

\* tx_timer_create(...) != TX_SUCCESS => limLog, and return when fatal
CreateTimer(s, id, handler, param, initTicks, reschedTicks, auto, fatal, msg) ==
    IF s.returned THEN s
    ELSE IF s.fault = id
         THEN [limLog(s, msg) EXCEPT !.returned = fatal,
                                     !.trace = Append(@, <<"create", id, FALSE>>)]
         ELSE [s EXCEPT !.timers[id] =
                            tx_timer_create(handler, param, initTicks, reschedTicks, auto),
                        !.trace = Append(@, <<"create", id, TRUE>>)]

\* a timer created Inactive and one-shot from the ticks in cfgValue
CreateFromCfg(s, name, handler, param, fatal, msg) ==
    CreateTimer(s, T(name), handler, param, s.cfgValue, 0, FALSE, fatal, msg)

Num(i) == <<"int", i>>
Sym(c) == <<"sym", c>>

\* lines 79-140: MIN and MAX channel timers
CreateChannelTimers(s) ==
    LET s1 == ToTicks(GetCfgValue(s, "WNI_CFG_ACTIVE_MINIMUM_CHANNEL_TIME",
                                  "could not retrieve MinChannelTimeout value"))
        s2 == CreateFromCfg(s1, "gLimMinChannelTimer", "limTimerHandler",
                            Sym("SIR_LIM_MIN_CHANNEL_TIMEOUT"), TRUE,
                            "could not create MIN channel timer")
        s3 == ToTicks(GetCfgValue(s2, "WNI_CFG_ACTIVE_MAXIMUM_CHANNEL_TIME",
                                  "could not retrieve MAXChannelTimeout value"))
    IN  CreateFromCfg(s3, "gLimMaxChannelTimer", "limTimerHandler",
                      Sym("SIR_LIM_MAX_CHANNEL_TIMEOUT"), TRUE,
                      "could not create MAX channel timer")

\* lines 144-191: channel switch and quiet timers, fixed tick counts
CreateSpecMgmtTimers(s) ==
    LET s1 == CreateTimer(s, T("gLimChannelSwitchTimer"), "limChannelSwitchTimerHandler",
                          Num(0), LIM_CHANNEL_SWITCH_TIMER_TICKS, 0, FALSE, TRUE,
                          "failed to create Channel Switch timer")
        s2 == CreateTimer(s1, T("gLimQuietTimer"), "limQuietTimerHandler",
                          Sym("SIR_LIM_QUIET_TIMEOUT"), LIM_QUIET_TIMER_TICKS, 0, FALSE, TRUE,
                          "failed to create Quiet Begin Timer")
    IN  CreateTimer(s2, T("gLimQuietBssTimer"), "limQuietBssTimerHandler",
                    Sym("SIR_LIM_QUIET_BSS_TIMEOUT"), LIM_QUIET_BSS_TIMER_TICK, 0, FALSE, TRUE,
                    "failed to create Quiet Begin Timer")

\* lines 193-321: join, assoc, reassoc, addts and auth failure timers
CreateFailureTimers(s) ==
    LET s1 == ToTicks(GetCfgValue(s, "WNI_CFG_JOIN_FAILURE_TIMEOUT",
                                  "could not retrieve JoinFailureTimeout value"))
        s2 == CreateFromCfg(s1, "gLimJoinFailureTimer", "limTimerHandler",
                            Sym("SIR_LIM_JOIN_FAIL_TIMEOUT"), TRUE,
                            "could not create Join failure timer")
        s3 == ToTicks(GetCfgValue(s2, "WNI_CFG_ASSOCIATION_FAILURE_TIMEOUT",
                                  "could not retrieve AssocFailureTimeout value"))
        s4 == CreateFromCfg(s3, "gLimAssocFailureTimer", "limAssocFailureTimerHandler",
                            Sym("LIM_ASSOC"), TRUE,
                            "could not create Association failure timer")
        s5 == ToTicks(GetCfgValue(s4, "WNI_CFG_REASSOCIATION_FAILURE_TIMEOUT",
                                  "could not retrieve ReassocFailureTimeout value"))
        s6 == CreateFromCfg(s5, "gLimReassocFailureTimer", "limAssocFailureTimerHandler",
                            Sym("LIM_REASSOC"), TRUE,
                            "could not create Reassociation failure timer")
        s7 == ToTicks(GetCfgValue(s6, "WNI_CFG_ADDTS_RSP_TIMEOUT",
                                  "Fail to get WNI_CFG_ADDTS_RSP_TIMEOUT"))
        s8 == CreateFromCfg(s7, "gLimAddtsRspTimer", "limAddtsResponseTimerHandler",
                            Sym("SIR_LIM_ADDTS_RSP_TIMEOUT"), TRUE,
                            "could not create Addts response timer")
        s9 == ToTicks(GetCfgValue(s8, "WNI_CFG_AUTHENTICATE_FAILURE_TIMEOUT",
                                  "could not retrieve AuthFailureTimeout value"))
    IN  CreateFromCfg(s9, "gLimAuthFailureTimer", "limTimerHandler",
                      Sym("SIR_LIM_AUTH_FAIL_TIMEOUT"), TRUE,
                      "could not create Auth failure timer")

\* lines 326-378: heartbeat and probe-after-heartbeat timers (failure not fatal)
CreateHeartBeatTimers(s) ==
    LET s1 == ToTicks(GetCfgValue(s, "WNI_CFG_BEACON_INTERVAL",
                                  "could not retrieve BEACON_INTERVAL value"))
        s2 == CreateFromCfg(s1, "gLimHeartBeatTimer", "limTimerHandler",
                            Sym("SIR_LIM_HEART_BEAT_TIMEOUT"), FALSE,
                            "call to create heartbeat timer failed")
        s3 == ToTicks(GetCfgValue(s2, "WNI_CFG_PROBE_AFTER_HB_FAIL_TIMEOUT",
                                  "could not retrieve PROBE_AFTER_HB_FAIL_TIMEOUT value"))
    IN  CreateFromCfg(s3, "gLimProbeAfterHBTimer", "limTimerHandler",
                      Sym("SIR_LIM_PROBE_HB_FAILURE_TIMEOUT"), FALSE,
                      "unable to create ProbeAfterHBTimer")

\* lines 386-425: background scan timer; period 0 sets the disable flag and
\* arms the default period
CreateBackgroundScanTimer(s) ==
    IF s.returned THEN s
    ELSE
    LET s1 == GetCfgValue(s, "WNI_CFG_BACKGROUND_SCAN_PERIOD",
                          "could not retrieve Background scan period value")
        ms == IF s1.cfgValue = 0 THEN LIM_BACKGROUND_SCAN_PERIOD_DEFAULT_MS ELSE s1.cfgValue
        s2 == [s1 EXCEPT !.lim.gLimBackgroundScanDisable = (s1.cfgValue = 0),
                         !.cfgValue = SYS_MS_TO_TICKS(ms)]
    IN  CreateTimer(s2, T("gLimBackgroundScanTimer"), "limTimerHandler",
                    Sym("SIR_LIM_CHANNEL_SCAN_TIMEOUT"), s2.cfgValue, s2.cfgValue, FALSE, FALSE,
                    "call to create background scan timer failed")

\* lines 430-445: disassociate throttle timer, periodic, started at once
CreateDisassocThresholdTimer(s) ==
    LET s1 == [s EXCEPT !.cfgValue = SYS_MS_TO_TICKS(LIM_HASH_MISS_TIMER_MS)]
    IN  CreateTimer(s1, T("gLimSendDisassocFrameThresholdTimer"),
                    "limSendDisassocFrameThresholdHandler",
                    Sym("SIR_LIM_HASH_MISS_THRES_TIMEOUT"), s1.cfgValue, s1.cfgValue, TRUE, FALSE,
                    "create Disassociate throttle timer failed")

\* the keepalive timer started at creation in every role
CreateKeepaliveTimerStarted(s) ==
    IF s.returned THEN s
    ELSE
    LET s1 == GetCfgValue(s, "WNI_CFG_KEEPALIVE_TIMEOUT",
                          "could not retrieve keepalive timeout value")
        ms == IF s1.cfgValue = 0 THEN LIM_KEEPALIVE_TIMER_MS ELSE s1.cfgValue
        s2 == [s1 EXCEPT !.lim.keepAlive = (s1.cfgValue # 0),
                         !.cfgValue = SYS_MS_TO_TICKS(Wrap32(ms + SYS_TICK_DUR_MS - 1))]
    IN  CreateTimer(s2, T("gLimKeepaliveTimer"), "limKeepaliveTmerHandler", Num(0),
                    s2.cfgValue, s2.cfgValue, TRUE, FALSE,
                    "Cannot create keepalive timer.")

\* lines 458-492: keepalive timer, started at once in the AP role
CreateKeepaliveTimer(s) ==
    IF s.returned THEN s
    ELSE
    LET s1 == GetCfgValue(s, "WNI_CFG_KEEPALIVE_TIMEOUT",
                          "could not retrieve keepalive timeout value")
        ms == IF s1.cfgValue = 0 THEN LIM_KEEPALIVE_TIMER_MS ELSE s1.cfgValue
        s2 == [s1 EXCEPT !.lim.keepAlive = (s1.cfgValue # 0),
                         !.cfgValue = SYS_MS_TO_TICKS(Wrap32(ms + SYS_TICK_DUR_MS - 1))]
    IN  CreateTimer(s2, T("gLimKeepaliveTimer"), "limKeepaliveTmerHandler", Num(0),
                    s2.cfgValue, s2.cfgValue, s2.lim.gLimSystemRole = "eLIM_AP_ROLE", FALSE,
                    "Cannot create keepalive timer.")

\* the CNF_WAIT timers all created with the parameter of slot 0
RECURSIVE CreateCnfWaitTimersUnindexed(_, _)
CreateCnfWaitTimersUnindexed(s, i) ==
    IF i >= s.lim.maxStation THEN s
    ELSE CreateCnfWaitTimersUnindexed(
             CreateTimer(s, CnfWait(i), "limCnfWaitTmerHandler", Num(0), s.cfgValue, 0,
                         FALSE, FALSE, "Cannot create CNF wait timer."),
             i + 1)

\* lines 498-523: one CNF_WAIT timer per station, slot i carrying index i
RECURSIVE CreateCnfWaitTimers(_, _)
CreateCnfWaitTimers(s, i) ==
    IF i >= s.lim.maxStation THEN s
    ELSE CreateCnfWaitTimers(
             CreateTimer(s, CnfWait(i), "limCnfWaitTmerHandler", Num(i), s.cfgValue, 0,
                         FALSE, FALSE, "Cannot create CNF wait timer."),
             i + 1)

\* limInitPreAuthTimerTable: one auth response timer per table entry, slot
\* i carrying index i, one-shot, from WNI_CFG_AUTHENTICATE_RSP_TIMEOUT
RECURSIVE limInitPreAuthTimerTable(_, _)
limInitPreAuthTimerTable(s, i) ==
    IF i >= s.lim.numEntry \/ i \notin StaIds THEN s
    ELSE limInitPreAuthTimerTable(
             CreateTimer(s, AuthRsp(i), "limAuthResponseTimerHandler", Num(i),
                         SYS_MS_TO_TICKS(wlan_cfgGetInt("WNI_CFG_AUTHENTICATE_RSP_TIMEOUT", 0)),
                         0, FALSE, FALSE, "could not create auth response timer"),
             i + 1)

\* lines 531-554: size, allocate and initialise the pre-auth timer table;
\* numEntry is stored before the allocation is attempted
CreatePreAuthTimerTable(s) ==
    IF s.returned THEN s
    ELSE
    LET s1 == GetCfgValue(s, "WNI_CFG_MAX_NUM_PRE_AUTH", "could not retrieve mac preauth value")
        s2 == [s1 EXCEPT !.lim.numEntry = s1.cfgValue]
    IN  IF s.fault = AllocFault
        THEN [limLog(s2, "palAllocateMemory failed!") EXCEPT !.returned = TRUE]
        ELSE limInitPreAuthTimerTable([s2 EXCEPT !.lim.pTable = TRUE], 0)

\* lines 562-587: OLBC cache aging timer, periodic, started at once
CreateOlbcTimer(s) ==
    LET s1 == ToTicks(GetCfgValue(s, "WNI_CFG_OLBC_DETECT_TIMEOUT",
                                  "could not retrieve OLBD detect timeout value"))
    IN  CreateTimer(s1, T("gLimUpdateOlbcCacheTimer"), "limUpdateOlbcCacheTimerHandler",
                    Sym("SIR_LIM_UPDATE_OLBC_CACHEL_TIMEOUT"), s1.cfgValue, s1.cfgValue,
                    TRUE, FALSE, "Cannot create update OLBC cache timer")

\* lines 595-623: FT pre-auth response and remain-on-channel timers
CreateFixedTimers(s) ==
    LET s1 == [s EXCEPT !.cfgValue = SYS_MS_TO_TICKS(FIXED_TIMEOUT_MS)]
        s2 == CreateFromCfg(s1, "gLimFTPreAuthRspTimer", "limTimerHandler",
                            Sym("SIR_LIM_FT_PREAUTH_RSP_TIMEOUT"), TRUE,
                            "could not create Join failure timer")
    IN  CreateFromCfg(s2, "gLimRemainOnChannelTimer", "limTimerHandler",
                      Sym("SIR_LIM_REMAIN_CHN_TIMEOUT"), TRUE,
                      "could not create Join failure timer")

\* limCreateTimers creating the station-side timers in every role
CreateTimersBodyAnyRole(s) ==
    LET s1 == CreateChannelTimers(s)
        s2 == CreateBackgroundScanTimer(CreateHeartBeatTimers(
                  CreateFailureTimers(CreateSpecMgmtTimers(s1))))
        s3 == CreateKeepaliveTimer(CreateDisassocThresholdTimer(s2))
        s4 == IF s3.returned THEN s3
              ELSE CreateCnfWaitTimers(
                       ToTicks(GetCfgValue(s3, "WNI_CFG_WT_CNF_TIMEOUT",
                                           "could not retrieve CNF timeout value")), 0)
        s5 == CreateFixedTimers(CreateOlbcTimer(CreatePreAuthTimerTable(s4)))
    IN  IF s5.returned THEN s5 ELSE [s5 EXCEPT !.lim.gLimTimersCreated = 1]

\* limCreateTimers setting gLimTimersCreated on every path
CreateTimersBodyFlagged(s) ==
    LET s1 == CreateChannelTimers(s)
        s2 == IF s1.lim.gLimSystemRole # "eLIM_AP_ROLE"
              THEN CreateBackgroundScanTimer(CreateHeartBeatTimers(
                       CreateFailureTimers(CreateSpecMgmtTimers(s1))))
              ELSE s1
        s3 == CreateKeepaliveTimer(CreateDisassocThresholdTimer(s2))
        s4 == IF s3.returned THEN s3
              ELSE CreateCnfWaitTimers(
                       ToTicks(GetCfgValue(s3, "WNI_CFG_WT_CNF_TIMEOUT",
                                           "could not retrieve CNF timeout value")), 0)
        s5 == CreateFixedTimers(CreateOlbcTimer(CreatePreAuthTimerTable(s4)))
    IN  [s5 EXCEPT !.lim.gLimTimersCreated = 1]

\* the body of limCreateTimers, in its order
CreateTimersBody(s) ==
    LET s1 == CreateChannelTimers(s)
        s2 == IF s1.lim.gLimSystemRole # "eLIM_AP_ROLE"
              THEN CreateBackgroundScanTimer(CreateHeartBeatTimers(
                       CreateFailureTimers(CreateSpecMgmtTimers(s1))))
              ELSE s1
        s3 == CreateKeepaliveTimer(CreateDisassocThresholdTimer(s2))
        s4 == IF s3.returned THEN s3
              ELSE CreateCnfWaitTimers(
                       ToTicks(GetCfgValue(s3, "WNI_CFG_WT_CNF_TIMEOUT",
                                           "could not retrieve CNF timeout value")), 0)
        s5 == CreateFixedTimers(CreateOlbcTimer(CreatePreAuthTimerTable(s4)))
    IN  IF s5.returned THEN s5 ELSE [s5 EXCEPT !.lim.gLimTimersCreated = 1]

---------------------------------------------------------------------------
(* Heartbeat helpers *)

\* a heartbeat reconfiguration that keeps the duration it finds
HeartBeatDeactivateOnly(s, junk) ==
    Deactivate(s, T("gLimHeartBeatTimer"), "Fail to deactivate HeartBeatTimer")

\* limHeartBeatDeactivateAndChangeTimer: the beacon interval comes from the
\* session; val1 is not initialised, so a failed lookup leaves junk in it
HeartBeatDeactivateAndChange(s, junk) ==
    LET id   == T("gLimHeartBeatTimer")
        s1   == Deactivate(s, id, "Fail to deactivate HeartBeatTimer")
        val  == s1.lim.beaconInterval
        val1 == wlan_cfgGetInt("WNI_CFG_HEART_BEAT_THRESHOLD", junk)
        s2   == LogCfg(s1, "WNI_CFG_HEART_BEAT_THRESHOLD",
                       "Fail to get WNI_CFG_HEART_BEAT_THRESHOLD")
    IN  Change(s2, id, SYS_MS_TO_TICKS(Wrap32(val * val1)), 0, "Fail to change HeartBeatTimer")

\* limReactivateHeartBeatTimer activating, and resetting the beacon count,
\* whatever the timeout
ReactivateHeartBeatAlways(s, junk) ==
    LET id == T("gLimHeartBeatTimer")
        s1 == HeartBeatDeactivateAndChange(s, junk)
    IN  [Activate(s1, id, "could not activate Heartbeat timer")
            EXCEPT !.lim.LimRxedBeaconCntDuringHB = 0]

\* limReactivateHeartBeatTimer: activates, and resets the beacon count,
\* only when the timeout is not zero
ReactivateHeartBeat(s, junk) ==
    LET id == T("gLimHeartBeatTimer")
        s1 == HeartBeatDeactivateAndChange(s, junk)
    IN  IF s1.timers[id].duration > 0
        THEN [Activate(s1, id, "could not activate Heartbeat timer")
                 EXCEPT !.lim.LimRxedBeaconCntDuringHB = 0]
        ELSE s1

\* limActivateHearBeatTimer: its return value
ActivateHearBeatStatus(t) ==
    IF ~t.created THEN "TX_TIMER_ERROR"
    ELSE IF t.duration # 0
         THEN IF ActivateSucceeds(t) THEN "TX_SUCCESS" ELSE "TX_TIMER_ERROR"
         ELSE "TX_SUCCESS"

\* limActivateHearBeatTimer: its effect
ActivateHearBeat(s) ==
    LET id == T("gLimHeartBeatTimer")
    IN  IF s.timers[id].created /\ s.timers[id].duration # 0
        THEN Activate(s, id, "could not activate Heartbeat timer")
        ELSE s

---------------------------------------------------------------------------
(* Per-station timers *)

\* What a TX_TIMER-sized piece of memory past the end of gpLimCnfWaitTimer
\* can hold when it is used as a timer.
JunkTimers ==
    { NoTimer,
      [NoTimer EXCEPT !.created = TRUE],
      [NoTimer EXCEPT !.created = TRUE, !.active = TRUE] }

\* &gpLimCnfWaitTimer[staId]: no bounds check; staId >= maxStation reads
\* whatever follows the array
CnfWaitSlot(s, staId, junkTimer) ==
    IF staId < s.lim.maxStation THEN s ELSE [s EXCEPT !.timers[CnfWait(staId)] = junkTimer]

\* limGetPreAuthNodeFromIndex: NULL for an index outside the table or a
\* table that was never allocated
limGetPreAuthNodeFromIndex(l, idx) == idx < l.numEntry /\ l.pTable /\ idx \in StaIds

\* case eLIM_CNF_WAIT_TIMER: val is not initialised; the change passes val
\* as the initial and as the reschedule time
CnfWaitCase(s, staId, junk, junkTimer) ==
    LET id  == CnfWait(staId)
        s1  == Deactivate(CnfWaitSlot(s, staId, junkTimer), id,
                          "unable to deactivate CNF wait timer")
        val == SYS_MS_TO_TICKS(wlan_cfgGetInt("WNI_CFG_WT_CNF_TIMEOUT", junk))
        s2  == LogCfg(s1, "WNI_CFG_WT_CNF_TIMEOUT", "could not retrieve cnf timeout value")
    IN  Change(s2, id, val, val, "unable to change cnf wait timer")

\* case eLIM_AUTH_RSP_TIMER
AuthRspCase(s, staId, junk) ==
    IF ~limGetPreAuthNodeFromIndex(s.lim, staId)
    THEN limLog(s, "Invalid Pre Auth Index passed")
    ELSE LET id  == AuthRsp(staId)
             s1  == Deactivate(s, id, "unable to deactivate auth response timer")
             val == SYS_MS_TO_TICKS(wlan_cfgGetInt("WNI_CFG_AUTHENTICATE_RSP_TIMEOUT", junk))
             s2  == LogCfg(s1, "WNI_CFG_AUTHENTICATE_RSP_TIMEOUT",
                           "could not retrieve auth response timeout value")
         IN  Change(s2, id, val, 0, "unable to change auth rsp timer")

PerStaEnum == { "eLIM_CNF_WAIT_TIMER", "eLIM_AUTH_RSP_TIMER", "eLIM_LEARN_INTERVAL_TIMER" }

\* the switch of limDeactivateAndChangePerStaIdTimer
DeactivateAndChangePerStaId(s, timerId, staId, junk, junkTimer) ==
    CASE timerId = "eLIM_CNF_WAIT_TIMER" -> CnfWaitCase(s, staId, junk, junkTimer)
      [] timerId = "eLIM_AUTH_RSP_TIMER" -> AuthRspCase(s, staId, junk)
      [] OTHER -> s

\* limActivateCnfTimer: stores the session id in the slot and activates it
ActivateCnf(s, staId, peSessionId, junkTimer) ==
    LET id == CnfWait(staId)
        s1 == [CnfWaitSlot(s, staId, junkTimer) EXCEPT !.timers[id].sessionId = peSessionId]
    IN  Activate(s1, id, "could not activate cnf wait timer")

\* limActivateAuthRspTimer, on the node of index staId
ActivateAuthRsp(s, staId) ==
    Activate(s, AuthRsp(staId), "could not activate auth rsp timer")

---------------------------------------------------------------------------
(* Expiry callbacks: the message each builds from the timer's expiration   *)
(* input, and whether it logs a failed limPostMsgApi.                      *)

HandlerMsg(t) ==
    CASE t.handler = "limTimerHandler" ->
            [type |-> t.param[2], bodyval |-> Num(0)]
      [] t.handler = "limAddtsResponseTimerHandler" ->
            [type |-> "SIR_LIM_ADDTS_RSP_TIMEOUT", bodyval |-> t.param]
      [] t.handler = "limAuthResponseTimerHandler" ->
            [type |-> "SIR_LIM_AUTH_RSP_TIMEOUT", bodyval |-> t.param]
      [] t.handler = "limAssocFailureTimerHandler" ->
            [type |-> "SIR_LIM_ASSOC_FAIL_TIMEOUT", bodyval |-> t.param]
      [] t.handler = "limUpdateOlbcCacheTimerHandler" ->
            [type |-> "SIR_LIM_UPDATE_OLBC_CACHEL_TIMEOUT", bodyval |-> Num(0)]
      [] t.handler = "limSendDisassocFrameThresholdHandler" ->
            [type |-> "SIR_LIM_HASH_MISS_THRES_TIMEOUT", bodyval |-> Num(0)]
      [] t.handler = "limCnfWaitTmerHandler" ->
            [type |-> "SIR_LIM_CNF_WAIT_TIMEOUT", bodyval |-> t.param]
      [] t.handler = "limKeepaliveTmerHandler" ->
            [type |-> "SIR_LIM_KEEPALIVE_TIMEOUT", bodyval |-> t.param]
      [] t.handler = "limChannelSwitchTimerHandler" ->
            [type |-> "SIR_LIM_CHANNEL_SWITCH_TIMEOUT", bodyval |-> t.param]
      [] t.handler = "limQuietTimerHandler" ->
            [type |-> "SIR_LIM_QUIET_TIMEOUT", bodyval |-> t.param]
      [] t.handler = "limQuietBssTimerHandler" ->
            [type |-> "SIR_LIM_QUIET_BSS_TIMEOUT", bodyval |-> t.param]

HandlerLogsFailure(handler) ==
    handler \in { "limTimerHandler", "limSendDisassocFrameThresholdHandler",
                  "limCnfWaitTmerHandler", "limKeepaliveTmerHandler" }

\* limPostMsgApi succeeds while the queue has room
PostSucceeds == Len(msgQ) < MaxQueue

\* a time source that stops every timer that fires
AfterExpiryStopping(t) ==
    [t EXCEPT !.fires = IF @ < MaxFires THEN @ + 1 ELSE @, !.active = FALSE, !.armed = 0]

\* the time source after an expiry: a timer with a reschedule time is armed
\* again with it, any other becomes Inactive
AfterExpiry(t) ==
    LET counted == [t EXCEPT !.fires = IF @ < MaxFires THEN @ + 1 ELSE @]
    IN  IF t.reload > 0
        THEN [counted EXCEPT !.armed = t.reload]
        ELSE [counted EXCEPT !.active = FALSE, !.armed = 0]

---------------------------------------------------------------------------
(* Actions.  Every action records itself in last.                          *)

Commit(s, op, arg, ret) ==
    /\ timers' = s.timers
    /\ lim' = s.lim
    /\ last' = [op |-> op, arg |-> arg, trace |-> s.trace, log |-> s.log, ret |-> ret]
    /\ started' = (started \/ op = "limCreateTimers")

Started == started

\* limCreateTimers runs once, at start-up
limCreateTimers(fault, junk) ==
    /\ ~Started
    /\ LET s0 == [ timers |-> timers, lim |-> lim, trace |-> <<>>, log |-> <<>>,
                   cfgValue |-> junk, returned |-> FALSE, fault |-> fault ]
       IN  Commit(CreateTimersBody(s0), "limCreateTimers", fault, "void")
    /\ UNCHANGED <<cfg, msgQ>>

limDeactivateAndChangeTimer(timerId) ==
    /\ Started
    /\ Commit(DeactivateAndChange(Begin, timerId), "limDeactivateAndChangeTimer",
              <<timerId, 0>>, "void")
    /\ UNCHANGED <<cfg, msgQ>>

limHeartBeatDeactivateAndChangeTimer(junk) ==
    /\ Started
    /\ Commit(HeartBeatDeactivateAndChange(Begin, junk),
              "limHeartBeatDeactivateAndChangeTimer", <<"eLIM_HEART_BEAT_TIMER", 0>>, "void")
    /\ UNCHANGED <<cfg, msgQ>>

limReactivateHeartBeatTimer(junk) ==
    /\ Started
    /\ Commit(ReactivateHeartBeat(Begin, junk), "limReactivateHeartBeatTimer",
              <<"eLIM_HEART_BEAT_TIMER", 0>>, "void")
    /\ UNCHANGED <<cfg, msgQ>>

limActivateHearBeatTimer ==
    /\ Started
    /\ Commit(ActivateHearBeat(Begin), "limActivateHearBeatTimer",
              <<"eLIM_HEART_BEAT_TIMER", 0>>,
              ActivateHearBeatStatus(timers[T("gLimHeartBeatTimer")]))
    /\ UNCHANGED <<cfg, msgQ>>

limDeactivateAndChangePerStaIdTimer(timerId, staId, junk, junkTimer) ==
    /\ Started
    /\ Commit(DeactivateAndChangePerStaId(Begin, timerId, staId, junk, junkTimer),
              "limDeactivateAndChangePerStaIdTimer", <<timerId, staId>>, "void")
    /\ UNCHANGED <<cfg, msgQ>>

limActivateCnfTimer(staId, peSessionId, junkTimer) ==
    /\ Started
    /\ Commit(ActivateCnf(Begin, staId, peSessionId, junkTimer), "limActivateCnfTimer",
              <<"eLIM_CNF_WAIT_TIMER", staId>>, "void")
    /\ UNCHANGED <<cfg, msgQ>>

\* the caller holds a node of the table, so the index is one of the table's
limActivateAuthRspTimer(staId) ==
    /\ Started
    /\ limGetPreAuthNodeFromIndex(lim, staId)
    /\ Commit(ActivateAuthRsp(Begin, staId), "limActivateAuthRspTimer",
              <<"eLIM_AUTH_RSP_TIMER", staId>>, "void")
    /\ UNCHANGED <<cfg, msgQ>>

\* tx_timer_activate / tx_timer_deactivate called on a singleton by the
\* other files of LIM
ActivateTimer(name) ==
    /\ Started
    /\ Commit(Activate(Begin, T(name), "could not activate timer"), "tx_timer_activate",
              T(name), "void")
    /\ UNCHANGED <<cfg, msgQ>>

DeactivateTimer(name) ==
    /\ Started
    /\ Commit(Deactivate(Begin, T(name), "could not deactivate timer"), "tx_timer_deactivate",
              T(name), "void")
    /\ UNCHANGED <<cfg, msgQ>>

\* a callback that, besides posting, starts its own timer again
ExpiryHandlerRestarting(s, id) ==
    Activate([s EXCEPT !.trace = Append(@, <<"post", id, PostSucceeds>>)], id,
             "could not activate timer")

\* the callback of timer id: one limPostMsgApi, and in the callbacks that
\* test its status a log entry when it fails
ExpiryHandler(s, id) ==
    LET posted == [s EXCEPT !.trace = Append(@, <<"post", id, PostSucceeds>>)]
    IN  IF PostSucceeds \/ ~HandlerLogsFailure(s.timers[id].handler)
        THEN posted
        ELSE limLog(posted, "posting to LIM failed")

\* A running timer fires: the time source re-arms or stops it and calls its
\* callback.
TimerExpiry(id) ==
    /\ timers[id].active
    /\ timers[id].handler # "none"
    /\ LET t == timers[id]
       IN  /\ Commit(ExpiryHandler([Begin EXCEPT !.timers[id] = AfterExpiry(t)], id),
                     t.handler, id, "void")
           /\ msgQ' = IF PostSucceeds THEN Append(msgQ, HandlerMsg(t)) ELSE msgQ
    /\ UNCHANGED cfg

\* the other modules post their messages to the same queue
PostOtherMsg ==
    /\ PostSucceeds
    /\ msgQ' = Append(msgQ, [type |-> "SIR_BB_XPORT_MGMT_MSG", bodyval |-> Num(0)])
    /\ last' = [op |-> "env", arg |-> <<"limPostMsgApi", 0>>, trace |-> <<>>, log |-> <<>>,
                ret |-> "void"]
    /\ UNCHANGED <<timers, lim, cfg, started>>

\* the LIM main loop takes the message at the head of the queue
limProcessMessages ==
    /\ msgQ # <<>>
    /\ msgQ' = Tail(msgQ)
    /\ last' = [op |-> "limProcessMessages", arg |-> <<Head(msgQ).type, 0>>,
                trace |-> <<>>, log |-> <<>>, ret |-> "void"]
    /\ UNCHANGED <<timers, lim, cfg, started>>

---------------------------------------------------------------------------
(* The environment: the configuration store and the session state that     *)
(* other LIM code writes between calls.                                    *)

CfgVals == { k * CfgStepMs : k \in 0 .. MaxCfgSteps }
CfgResults == { Found(v) : v \in CfgVals } \cup { NotFound }
StoredTicks == 0 .. MaxStoredTicks
\* gpLimMlmScanReq: NULL, or a request whose maximum channel time is one
\* step above its minimum
ScanReqs ==
    { [present |-> FALSE, minChannelTime |-> 0, maxChannelTime |-> 0] } \cup
    { [present |-> TRUE, minChannelTime |-> a, maxChannelTime |-> a + CfgStepMs] :
          a \in CfgVals }

Env(l, what) ==
    /\ lim' = l
    /\ last' = [op |-> "env", arg |-> <<what, 0>>, trace |-> <<>>, log |-> <<>>,
                ret |-> "void"]
    /\ UNCHANGED <<timers, cfg, msgQ, started>>

wlan_cfgSetInt(key, r) ==
    /\ cfg[key] # r
    /\ cfg' = [cfg EXCEPT ![key] = r]
    /\ last' = [op |-> "env", arg |-> <<key, 0>>, trace |-> <<>>, log |-> <<>>,
                ret |-> "void"]
    /\ UNCHANGED <<timers, lim, msgQ, started>>

\* the quiet period is a station-side procedure: its timers exist only
\* outside the AP role
SetQuietState(st) ==
    /\ lim.gLimSystemRole # "eLIM_AP_ROLE"
    /\ lim.quietState # st
    /\ Env([lim EXCEPT !.quietState = st], "quietState")

SetQuietDuration(d) ==
    /\ lim.quietDuration # d
    /\ Env([lim EXCEPT !.quietDuration = d], "quietDuration")

SetQuietTimeoutValue(v) ==
    /\ lim.quietTimeoutValue # v
    /\ Env([lim EXCEPT !.quietTimeoutValue = v], "quietTimeoutValue")

SetTriggerBackgroundScanDuringQuietBss(b) ==
    /\ lim.gLimTriggerBackgroundScanDuringQuietBss # b
    /\ Env([lim EXCEPT !.gLimTriggerBackgroundScanDuringQuietBss = b],
           "gLimTriggerBackgroundScanDuringQuietBss")

SetScanReq(r) ==
    /\ lim.gpLimMlmScanReq # r
    /\ Env([lim EXCEPT !.gpLimMlmScanReq = r], "gpLimMlmScanReq")

SetSwitchTimeoutValue(v) ==
    /\ lim.switchTimeoutValue # v
    /\ Env([lim EXCEPT !.switchTimeoutValue = v], "switchTimeoutValue")

\* a beacon received during the heartbeat period is counted
RxBeacon ==
    /\ lim.LimRxedBeaconCntDuringHB < MaxBeacons
    /\ Env([lim EXCEPT !.LimRxedBeaconCntDuringHB = @ + 1], "LimRxedBeaconCntDuringHB")

SetBeaconInterval(v) ==
    /\ lim.beaconInterval # v
    /\ Env([lim EXCEPT !.beaconInterval = v], "beaconInterval")

---------------------------------------------------------------------------
(* Initial state: nothing created, configuration downloaded *)

CfgBase ==
    [ k \in CfgKeys |->
        IF k = "WNI_CFG_MAX_NUM_PRE_AUTH" THEN Found(NumStations)
        ELSE Found(CfgStepMs * MaxCfgSteps) ]

---------------------------------------------------------------------------
(* qdss.c: the debug subsystem clock, enabled through the RPM and shared   *)
(* by reference count.  clk_count and max_clk are uint8_t.                 *)

U8 == 256
QDSS_CLK_OFF == 0
QDSS_CLK_ON_DBG == 1
QDSS_CLK_ON_HSDBG == 2

NumThreads == 2
Threads == 1 .. NumThreads

\* callers that hold the clock at once: enough to pass the width of clk_count
MaxUsers == 257
\* and where only the interleaving of the callers is looked at
MaxHolders == 2

\* what msm_rpmrs_set returns: 0, or an error such as -EIO
RpmResults == { 0, -5 }

\* what is written to the max_clk attribute, as sscanf("%lx") reads it
MaxClkInputs == { 0, 1, U8 }

\* what a thread keeps between its test of clk_count and its store to it:
\* the value it is going to store and what it asked and logged so far
NoCall == [ count |-> 0, trace |-> <<>>, log |-> <<>> ]

\* static struct qdss_ctx qdss, after qdss_init; the RPM holds the clock
\* off and nobody holds the clock
QdssInit ==
    [ max_clk |-> 0, clk_count |-> 0, clk_mutex |-> 0, rpm |-> QDSS_CLK_OFF,
      pc |-> [ t \in Threads |-> "idle" ], users |-> 0,
      reg |-> [ t \in Threads |-> NoCall ] ]

\* the callers holding the clock after a call that returned ret: one more
\* after a successful qdss_clk_enable, one fewer, if there was one, after
\* qdss_clk_disable
UsersAfter(op, ret, users) ==
    IF op = "qdss_clk_enable" THEN (IF ret = 0 THEN users + 1 ELSE users)
    ELSE IF users > 0 THEN users - 1 ELSE 0

mutex_lock(q, t) == [q EXCEPT !.clk_mutex = t]
mutex_unlock(q) == [q EXCEPT !.clk_mutex = 0]

\* msm_rpmrs_set(MSM_RPM_CTX_SET_0, &iv, 1) with iv.value = value: the RPM
\* takes the level when it answers 0
msm_rpmrs_set(c, value, rpmRet) ==
    [c EXCEPT !.q.rpm = IF rpmRet = 0 THEN value ELSE @,
              !.trace = Append(@, <<"msm_rpmrs_set", value, rpmRet>>)]

WARN(c, msg) == [c EXCEPT !.log = Append(@, msg)]

QdssBegin == [ q |-> qdss, trace |-> <<>>, log |-> <<>>, ret |-> 0 ]

\* the body of qdss_clk_enable that counts a user whose RPM request failed
EnableBodyCountingFailures(c, rpmRet) ==
    LET value == IF c.q.max_clk # 0 THEN QDSS_CLK_ON_HSDBG ELSE QDSS_CLK_ON_DBG
        c1 == IF c.q.clk_count = 0 THEN msm_rpmrs_set(c, value, rpmRet) ELSE c
        c2 == IF c.q.clk_count = 0 /\ rpmRet # 0
              THEN [WARN(c1, "qdss clks not enabled") EXCEPT !.ret = rpmRet]
              ELSE c1
    IN  [c2 EXCEPT !.q = mutex_unlock([@ EXCEPT !.clk_count = (@ + 1) % U8])]

\* the body of qdss_clk_enable, from after mutex_lock to the return
EnableBody(c, rpmRet) ==
    LET value == IF c.q.max_clk # 0 THEN QDSS_CLK_ON_HSDBG ELSE QDSS_CLK_ON_DBG
        c1 == IF c.q.clk_count = 0 THEN msm_rpmrs_set(c, value, rpmRet) ELSE c
    IN  IF c.q.clk_count = 0 /\ rpmRet # 0
        THEN [WARN(c1, "qdss clks not enabled") EXCEPT !.q = mutex_unlock(@), !.ret = rpmRet]
        ELSE [c1 EXCEPT !.q = mutex_unlock([@ EXCEPT !.clk_count = (@ + 1) % U8])]

\* the body of qdss_clk_disable that asks the RPM at every call
DisableBodyAlwaysOff(c, rpmRet) ==
    IF c.q.clk_count = 0
    THEN [WARN(c, "qdss clks are unbalanced") EXCEPT !.q = mutex_unlock(@)]
    ELSE LET c1 == msm_rpmrs_set(c, QDSS_CLK_OFF, rpmRet)
             c2 == IF rpmRet # 0 THEN WARN(c1, "qdss clks not disabled") ELSE c1
         IN  [c2 EXCEPT !.q = mutex_unlock([@ EXCEPT !.clk_count = (@ + U8 - 1) % U8])]

\* the body of qdss_clk_disable without the test for an unbalanced call
DisableBodyUnguarded(c, rpmRet) ==
    LET c1 == IF c.q.clk_count = 1 THEN msm_rpmrs_set(c, QDSS_CLK_OFF, rpmRet) ELSE c
        c2 == IF c.q.clk_count = 1 /\ rpmRet # 0
              THEN WARN(c1, "qdss clks not disabled") ELSE c1
    IN  [c2 EXCEPT !.q = mutex_unlock([@ EXCEPT !.clk_count = (@ + U8 - 1) % U8])]

\* the body of qdss_clk_disable, from after mutex_lock to the return
DisableBody(c, rpmRet) ==
    IF c.q.clk_count = 0
    THEN [WARN(c, "qdss clks are unbalanced") EXCEPT !.q = mutex_unlock(@)]
    ELSE LET c1 == IF c.q.clk_count = 1 THEN msm_rpmrs_set(c, QDSS_CLK_OFF, rpmRet) ELSE c
             c2 == IF c.q.clk_count = 1 /\ rpmRet # 0
                   THEN WARN(c1, "qdss clks not disabled") ELSE c1
         IN  [c2 EXCEPT !.q = mutex_unlock([@ EXCEPT !.clk_count = (@ + U8 - 1) % U8])]

QdssCommit(c, op, t, ret) ==
    /\ qdss' = [c.q EXCEPT !.pc[t] = "idle", !.users = UsersAfter(op, c.ret, @)]
    /\ last' = [op |-> op, arg |-> <<t, 0>>, trace |-> c.trace, log |-> c.log, ret |-> ret]
    /\ UNCHANGED <<timers, lim, cfg, msgQ, started, ops>>

\* thread t enters qdss_clk_enable or qdss_clk_disable and takes clk_mutex,
\* which it can only when no thread holds it
QdssLock(t, call) ==
    /\ qdss.pc[t] = "idle"
    /\ qdss.clk_mutex = 0
    /\ qdss' = [mutex_lock(qdss, t) EXCEPT !.pc[t] = call]
    /\ last' = [op |-> "mutex_lock", arg |-> <<t, 0>>, trace |-> <<>>, log |-> <<>>,
                ret |-> Num(0)]
    /\ UNCHANGED <<timers, lim, cfg, msgQ, started, ops>>

\* thread t runs qdss_clk_enable to its return
qdss_clk_enable(t, rpmRet) ==
    /\ qdss.pc[t] = "qdss_clk_enable"
    /\ LET c == EnableBody(QdssBegin, rpmRet)
       IN  QdssCommit(c, "qdss_clk_enable", t, Num(c.ret))

\* thread t runs qdss_clk_disable to its return
qdss_clk_disable(t, rpmRet) ==
    /\ qdss.pc[t] = "qdss_clk_disable"
    /\ QdssCommit(DisableBody(QdssBegin, rpmRet), "qdss_clk_disable", t, "void")

\* The same two calls a statement at a time, for the interleavings of
\* their callers.  A thread is at mutex_lock (lines 65 and 99), in the
\* section before its test of clk_count, or at its store to clk_count
\* (lines 76 and 108).
Waiting(call) ==
    IF call = "qdss_clk_enable" THEN "qdss_clk_enable:65" ELSE "qdss_clk_disable:99"
Storing(call) ==
    IF call = "qdss_clk_enable" THEN "qdss_clk_enable:76" ELSE "qdss_clk_disable:108"
QdssCalls == { "qdss_clk_enable", "qdss_clk_disable" }

\* thread t calls and arrives at mutex_lock
QdssCall(t, call) ==
    /\ qdss.pc[t] = "idle"
    /\ qdss' = [qdss EXCEPT !.pc[t] = Waiting(call)]
    /\ last' = [op |-> "call", arg |-> <<t, 0>>, trace |-> <<>>, log |-> <<>>,
                ret |-> Num(0)]
    /\ UNCHANGED <<timers, lim, cfg, msgQ, started, ops>>

\* mutex_lock that lets the thread in whoever holds clk_mutex
QdssAcquireAnyway(t, call) ==
    /\ qdss.pc[t] = Waiting(call)
    /\ qdss' = [mutex_lock(qdss, t) EXCEPT !.pc[t] = call]
    /\ last' = [op |-> "mutex_lock", arg |-> <<t, 0>>, trace |-> <<>>, log |-> <<>>,
                ret |-> Num(0)]
    /\ UNCHANGED <<timers, lim, cfg, msgQ, started, ops>>

\* mutex_lock returns to thread t, which it does only when no thread holds
\* clk_mutex
QdssAcquire(t, call) ==
    /\ qdss.pc[t] = Waiting(call)
    /\ qdss.clk_mutex = 0
    /\ qdss' = [mutex_lock(qdss, t) EXCEPT !.pc[t] = call]
    /\ last' = [op |-> "mutex_lock", arg |-> <<t, 0>>, trace |-> <<>>, log |-> <<>>,
                ret |-> Num(0)]
    /\ UNCHANGED <<timers, lim, cfg, msgQ, started, ops>>

\* thread t tests clk_count and makes its RPM request.  On the paths that
\* leave clk_count alone (goto err_clk, goto out) it unlocks and returns;
\* on the others it has read clk_count for the ++ or -- that follows.
QdssTest(t, call, rpmRet) ==
    /\ qdss.pc[t] = call
    /\ LET c == IF call = "qdss_clk_enable" THEN EnableBody(QdssBegin, rpmRet)
                ELSE DisableBody(QdssBegin, rpmRet)
       IN  IF c.q.clk_count = qdss.clk_count
           THEN QdssCommit(c, call, t,
                           IF call = "qdss_clk_enable" THEN Num(c.ret) ELSE "void")
           ELSE /\ qdss' = [qdss EXCEPT !.rpm = c.q.rpm, !.pc[t] = Storing(call),
                                        !.reg[t] = [ count |-> c.q.clk_count,
                                                     trace |-> c.trace, log |-> c.log ]]
                /\ last' = [op |-> "clk_count", arg |-> <<t, 0>>, trace |-> c.trace,
                            log |-> c.log, ret |-> Num(0)]
                /\ UNCHANGED <<timers, lim, cfg, msgQ, started, ops>>

\* thread t stores the new clk_count, unlocks and returns
QdssStore(t, call) ==
    /\ qdss.pc[t] = Storing(call)
    /\ LET r == qdss.reg[t]
           c == [ q |-> mutex_unlock([qdss EXCEPT !.clk_count = r.count,
                                                  !.reg[t] = NoCall]),
                  trace |-> r.trace, log |-> r.log, ret |-> 0 ]
       IN  QdssCommit(c, call, t, IF call = "qdss_clk_enable" THEN Num(0) ELSE "void")

\* a write to the max_clk attribute: text that sscanf("%lx") cannot read is
\* refused, a value that it reads is cut to the uint8_t field
max_clk_store(parsed, val) ==
    /\ qdss' = IF parsed THEN [qdss EXCEPT !.max_clk = val % U8] ELSE qdss
    /\ last' = [op |-> "max_clk_store", arg |-> <<val, 0>>, trace |-> <<>>, log |-> <<>>,
                ret |-> IF parsed THEN "n" ELSE "-EINVAL"]
    /\ UNCHANGED <<timers, lim, cfg, msgQ, started, ops>>

Roles == { "eLIM_STA_ROLE", "eLIM_AP_ROLE" }

Init ==
    /\ timers = [ id \in TimerIds |-> NoTimer ]
    /\ \E role \in Roles :
         lim = [ gLimSystemRole |-> role, keepAlive |-> FALSE,
                 gLimBackgroundScanDisable |-> FALSE, gLimAddtsRspTimerCount |-> 0,
                 gLimTimersCreated |-> 0, numEntry |-> 0, pTable |-> FALSE,
                 maxStation |-> NumStations, quietState |-> "eLIM_QUIET_INIT",
                 quietDuration |-> 0, quietTimeoutValue |-> 0,
                 gLimTriggerBackgroundScanDuringQuietBss |-> FALSE,
                 gpLimMlmScanReq |->
                     [present |-> FALSE, minChannelTime |-> 0, maxChannelTime |-> 0],
                 switchTimeoutValue |-> 0, beaconInterval |-> CfgStepMs,
                 LimRxedBeaconCntDuringHB |-> 0 ]
    /\ cfg = CfgBase
    /\ msgQ = <<>>
    /\ last = [op |-> "boot", arg |-> <<"none", 0>>, trace |-> <<>>, log |-> <<>>,
               ret |-> "void"]
    /\ started = FALSE
    /\ ops = 0
    /\ qdss = QdssInit

\* a step that is not counted, and a call that is
Free(A) == A /\ UNCHANGED <<ops, qdss>>
Counted(A) == ops < MaxOps /\ A /\ ops' = ops + 1 /\ UNCHANGED qdss

---------------------------------------------------------------------------
(* The keepalive timer and its configuration *)

NextKeepAlive ==
    \/ \E junk \in Uninitialised : Free(limCreateTimers(NoFault, junk))
    \/ \E r \in CfgResults : Free(wlan_cfgSetInt("WNI_CFG_KEEPALIVE_TIMEOUT", r))
    \/ Free(limDeactivateAndChangeTimer("eLIM_KEEPALIVE_TIMER"))
    \/ Free(ActivateTimer("gLimKeepaliveTimer"))
    \/ Free(TimerExpiry(T("gLimKeepaliveTimer")))
    \/ Free(limProcessMessages)

SpecKeepAlive == Init /\ [][NextKeepAlive]_vars

\* d is ms rounded up to whole ticks
IsCeilTicks(d, ms) == d * SYS_TICK_DUR_MS >= ms /\ (d - 1) * SYS_TICK_DUR_MS < ms

Called(op, timerId) == last.op = op /\ last.arg[1] = timerId

KeepAliveSet ==
    \/ Called("limDeactivateAndChangeTimer", "eLIM_KEEPALIVE_TIMER")
    \/ last.op = "limCreateTimers"

\* C1: after KeepAlive is created or reconfigured with a configuration value
\* that was found, a value of 0 gives the duration 3000 ms rounded up to ticks
\* with sch.keepAlive false, and a nonzero value v gives v rounded up to ticks
\* with sch.keepAlive true.
C1_KeepAliveDuration ==
    LET c == cfg["WNI_CFG_KEEPALIVE_TIMEOUT"]
        t == timers[T("gLimKeepaliveTimer")]
    IN  (KeepAliveSet /\ c.ok /\ t.created) =>
            IF c.val = 0
            THEN IsCeilTicks(t.duration, 3000) /\ t.reload = t.duration /\ ~lim.keepAlive
            ELSE IsCeilTicks(t.duration, c.val) /\ t.reload = t.duration /\ lim.keepAlive

\* a reconfigure with a value that is not a whole number of ticks
C1_Witness ==
    LET c == cfg["WNI_CFG_KEEPALIVE_TIMEOUT"]
        t == timers[T("gLimKeepaliveTimer")]
    IN  /\ Called("limDeactivateAndChangeTimer", "eLIM_KEEPALIVE_TIMER")
        /\ c.ok /\ c.val % SYS_TICK_DUR_MS # 0
        /\ t.created /\ t.duration = c.val \div SYS_TICK_DUR_MS + 1
        /\ lim.keepAlive

---------------------------------------------------------------------------
(* The background scan timer and its configuration *)

NextBackgroundScan ==
    \/ \E junk \in Uninitialised : Free(limCreateTimers(NoFault, junk))
    \/ \E r \in CfgResults : Free(wlan_cfgSetInt("WNI_CFG_BACKGROUND_SCAN_PERIOD", r))
    \/ Free(limDeactivateAndChangeTimer("eLIM_BACKGROUND_SCAN_TIMER"))
    \/ Free(ActivateTimer("gLimBackgroundScanTimer"))
    \/ Free(TimerExpiry(T("gLimBackgroundScanTimer")))
    \/ Free(limProcessMessages)

SpecBackgroundScan == Init /\ [][NextBackgroundScan]_vars

BackgroundScanSet ==
    \/ Called("limDeactivateAndChangeTimer", "eLIM_BACKGROUND_SCAN_TIMER")
    \/ last.op = "limCreateTimers"

\* C2: after BackgroundScan is created or reconfigured with a period that
\* was found, a period of 0 sets the disable flag and arms the default
\* 5000 ms in ticks as duration and reload, a nonzero period p clears the
\* flag and arms p in ticks, and in both cases the timer has a period.
C2_BackgroundScanPeriod ==
    LET c == cfg["WNI_CFG_BACKGROUND_SCAN_PERIOD"]
        t == timers[T("gLimBackgroundScanTimer")]
    IN  (BackgroundScanSet /\ c.ok /\ t.created) =>
            /\ IF c.val = 0
               THEN /\ lim.gLimBackgroundScanDisable
                    /\ t.duration = SYS_MS_TO_TICKS(LIM_BACKGROUND_SCAN_PERIOD_DEFAULT_MS)
               ELSE /\ ~lim.gLimBackgroundScanDisable
                    /\ t.duration = SYS_MS_TO_TICKS(c.val)
            /\ t.reload = t.duration
            /\ t.duration > 0

---------------------------------------------------------------------------
(* The heartbeat timer, its threshold and the two beacon intervals *)

NextHeartBeat ==
    \/ \E junk \in Uninitialised : Free(limCreateTimers(NoFault, junk))
    \/ \E r \in CfgResults : Free(wlan_cfgSetInt("WNI_CFG_HEART_BEAT_THRESHOLD", r))
    \/ \E r \in CfgResults : Free(wlan_cfgSetInt("WNI_CFG_BEACON_INTERVAL", r))
    \/ \E v \in CfgVals : Free(SetBeaconInterval(v))
    \/ Free(limDeactivateAndChangeTimer("eLIM_HEART_BEAT_TIMER"))
    \/ \E junk \in Uninitialised : Free(limHeartBeatDeactivateAndChangeTimer(junk))
    \/ \E junk \in Uninitialised : Free(limReactivateHeartBeatTimer(junk))
    \/ Free(limActivateHearBeatTimer)
    \/ Free(TimerExpiry(T("gLimHeartBeatTimer")))
    \/ Free(limProcessMessages)

SpecHeartBeat == Init /\ [][NextHeartBeat]_vars

\* C3: every heartbeat reconfiguration whose lookups succeed leaves the
\* duration at beacon interval times threshold, in ticks, of the values at
\* the time of the call: limDeactivateAndChangeTimer reads the interval of
\* the configuration, limHeartBeatDeactivateAndChangeTimer the session's.
C3_HeartBeatDuration ==
    LET th == cfg["WNI_CFG_HEART_BEAT_THRESHOLD"]
        bi == cfg["WNI_CFG_BEACON_INTERVAL"]
        t  == timers[T("gLimHeartBeatTimer")]
    IN  /\ (Called("limDeactivateAndChangeTimer", "eLIM_HEART_BEAT_TIMER")
               /\ th.ok /\ bi.ok /\ t.created) =>
              (t.duration = SYS_MS_TO_TICKS(bi.val * th.val) /\ t.reload = 0)
        /\ (last.op \in { "limHeartBeatDeactivateAndChangeTimer",
                          "limReactivateHeartBeatTimer" } /\ th.ok /\ t.created) =>
              (t.duration = SYS_MS_TO_TICKS(lim.beaconInterval * th.val) /\ t.reload = 0)

\* the session's interval differs from the one the timer was created with
\* and the reconfigured duration follows it
C3_Witness ==
    LET th == cfg["WNI_CFG_HEART_BEAT_THRESHOLD"]
        t  == timers[T("gLimHeartBeatTimer")]
    IN  /\ last.op = "limHeartBeatDeactivateAndChangeTimer"
        /\ th.ok /\ t.created
        /\ lim.beaconInterval # CfgBase["WNI_CFG_BEACON_INTERVAL"].val
        /\ t.duration = SYS_MS_TO_TICKS(lim.beaconInterval * th.val)
        /\ t.duration > 0

---------------------------------------------------------------------------
(* The channel dwell timers, the scan request and the quiet window *)

QuietStates == { "eLIM_QUIET_INIT", "eLIM_QUIET_RUNNING" }

NextChannelDwell ==
    \/ \E junk \in Uninitialised : Free(limCreateTimers(NoFault, junk))
    \/ \E st \in QuietStates : Free(SetQuietState(st))
    \/ \E d \in StoredTicks : Free(SetQuietDuration(d))
    \/ \E b \in BOOLEAN : Free(SetTriggerBackgroundScanDuringQuietBss(b))
    \/ \E r \in ScanReqs : Free(SetScanReq(r))
    \/ Free(limDeactivateAndChangeTimer("eLIM_MIN_CHANNEL_TIMER"))
    \/ Free(limDeactivateAndChangeTimer("eLIM_MAX_CHANNEL_TIMER"))
    \/ Free(ActivateTimer("gLimMinChannelTimer"))
    \/ Free(ActivateTimer("gLimMaxChannelTimer"))

SpecChannelDwell == Init /\ [][NextChannelDwell]_vars

QuietRunningAndPermitted ==
    lim.quietState = "eLIM_QUIET_RUNNING" /\ lim.gLimTriggerBackgroundScanDuringQuietBss

Dwell == { <<"eLIM_MIN_CHANNEL_TIMER", "gLimMinChannelTimer">>,
           <<"eLIM_MAX_CHANNEL_TIMER", "gLimMaxChannelTimer">> }

DwellSkipped(k) ==
    /\ last'.op = "limDeactivateAndChangeTimer" /\ last'.arg[1] = k[1]
    /\ ~lim.gpLimMlmScanReq.present
    /\ ~QuietRunningAndPermitted

\* C5: with no scan request and no quiet window, reconfiguring the min or
\* the max channel timer deactivates it and leaves its duration and reload
\* as they were; only the max channel timer in the AP role is changed, to
\* duration 0 and reload 0.
C5_DwellSkippedKeepsDuration ==
    [][ \A k \in Dwell :
          DwellSkipped(k) =>
            /\ ~timers'[T(k[2])].active
            /\ IF k[1] = "eLIM_MAX_CHANNEL_TIMER" /\ lim.gLimSystemRole = "eLIM_AP_ROLE"
                  /\ timers[T(k[2])].created
               THEN timers'[T(k[2])].duration = 0 /\ timers'[T(k[2])].reload = 0
               ELSE /\ timers'[T(k[2])].duration = timers[T(k[2])].duration
                    /\ timers'[T(k[2])].reload = timers[T(k[2])].reload ]_vars

\* a running min channel timer was stopped by the skipped reconfiguration
C5_Witness ==
    /\ Called("limDeactivateAndChangeTimer", "eLIM_MIN_CHANNEL_TIMER")
    /\ ~lim.gpLimMlmScanReq.present
    /\ ~QuietRunningAndPermitted
    /\ last.trace = << <<"deactivate", T("gLimMinChannelTimer"), TRUE>> >>
    /\ ~timers[T("gLimMinChannelTimer")].active
    /\ timers[T("gLimMinChannelTimer")].duration > 0

\* C5 as stated: with no scan request and no quiet window, the call leaves
\* the timer's activation state, duration and reload as they were
C5_AsStated ==
    [][ \A k \in Dwell :
          DwellSkipped(k) =>
            /\ timers'[T(k[2])].active = timers[T(k[2])].active
            /\ timers'[T(k[2])].duration = timers[T(k[2])].duration
            /\ timers'[T(k[2])].reload = timers[T(k[2])].reload ]_vars

---------------------------------------------------------------------------
(* The quiet timers and the values stored for them *)

NextQuiet ==
    \/ \E junk \in Uninitialised : Free(limCreateTimers(NoFault, junk))
    \/ \E d \in StoredTicks : Free(SetQuietDuration(d))
    \/ \E v \in CfgVals : Free(SetQuietTimeoutValue(v))
    \/ Free(limDeactivateAndChangeTimer("eLIM_QUIET_TIMER"))
    \/ Free(limDeactivateAndChangeTimer("eLIM_QUIET_BSS_TIMER"))
    \/ Free(ActivateTimer("gLimQuietTimer"))
    \/ Free(ActivateTimer("gLimQuietBssTimer"))

SpecQuiet == Init /\ [][NextQuiet]_vars

\* C6: reconfiguring the quiet BSS timer leaves its duration at the stored
\* quietDuration, and reconfiguring the quiet timer leaves its duration at
\* the stored quietTimeoutValue, both as they are stored.
C6_QuietDurationsAsStored ==
    /\ (Called("limDeactivateAndChangeTimer", "eLIM_QUIET_BSS_TIMER")
           /\ timers[T("gLimQuietBssTimer")].created) =>
          timers[T("gLimQuietBssTimer")].duration = lim.quietDuration
    /\ (Called("limDeactivateAndChangeTimer", "eLIM_QUIET_TIMER")
           /\ timers[T("gLimQuietTimer")].created) =>
          timers[T("gLimQuietTimer")].duration = lim.quietTimeoutValue

---------------------------------------------------------------------------
(* The channel switch timer and the negotiated timeout *)

NextChannelSwitch ==
    \/ \E junk \in Uninitialised : Free(limCreateTimers(NoFault, junk))
    \/ \E v \in StoredTicks : Free(SetSwitchTimeoutValue(v))
    \/ Free(limDeactivateAndChangeTimer("eLIM_CHANNEL_SWITCH_TIMER"))
    \/ Free(ActivateTimer("gLimChannelSwitchTimer"))
    \/ Free(TimerExpiry(T("gLimChannelSwitchTimer")))
    \/ Free(limProcessMessages)

SpecChannelSwitch == Init /\ [][NextChannelSwitch]_vars

\* C7: when its deactivate succeeds, reconfiguring the channel switch timer
\* leaves it Inactive with the stored switchTimeoutValue as duration and
\* reload 0.
C7_ChannelSwitchDuration ==
    (Called("limDeactivateAndChangeTimer", "eLIM_CHANNEL_SWITCH_TIMER")
        /\ last.trace # <<>>
        /\ last.trace[1] = <<"deactivate", T("gLimChannelSwitchTimer"), TRUE>>) =>
    /\ timers[T("gLimChannelSwitchTimer")].duration = lim.switchTimeoutValue
    /\ timers[T("gLimChannelSwitchTimer")].reload = 0
    /\ ~timers[T("gLimChannelSwitchTimer")].active

\* a running channel switch timer reconfigured to a stored timeout that is
\* not the one it was created with
C7_Witness ==
    /\ Called("limDeactivateAndChangeTimer", "eLIM_CHANNEL_SWITCH_TIMER")
    /\ last.trace = << <<"deactivate", T("gLimChannelSwitchTimer"), TRUE>>,
                       <<"change", T("gLimChannelSwitchTimer"), TRUE>> >>
    /\ lim.switchTimeoutValue > LIM_CHANNEL_SWITCH_TIMER_TICKS
    /\ timers[T("gLimChannelSwitchTimer")].duration = lim.switchTimeoutValue

---------------------------------------------------------------------------
(* The two per-station pools *)

\* what an uninitialised local or an out-of-bounds slot holds matters only
\* to the calls that read it
JunkFor(key) == IF cfg[key].ok THEN { 0 } ELSE Uninitialised
JunkTimersFor(staId) == IF staId < lim.maxStation THEN { NoTimer } ELSE JunkTimers

SessionIds == { 0, 1 }
CnfWaitIds == { CnfWait(i) : i \in StaIds }

NextPools ==
    \/ \E junk \in Uninitialised : Free(limCreateTimers(NoFault, junk))
    \/ \E r \in CfgResults : Counted(wlan_cfgSetInt("WNI_CFG_WT_CNF_TIMEOUT", r))
    \/ \E timerId \in PerStaEnum, staId \in StaIds :
          \E junk \in JunkFor("WNI_CFG_WT_CNF_TIMEOUT"), junkTimer \in JunkTimersFor(staId) :
          Counted(limDeactivateAndChangePerStaIdTimer(timerId, staId, junk, junkTimer))
    \/ \E staId \in StaIds, peSessionId \in SessionIds :
          \E junkTimer \in JunkTimersFor(staId) :
          Counted(limActivateCnfTimer(staId, peSessionId, junkTimer))
    \/ \E staId \in StaIds : Counted(limActivateAuthRspTimer(staId))
    \/ \E id \in CnfWaitIds : Free(TimerExpiry(id))
    \/ Free(limProcessMessages)

SpecPools == Init /\ [][NextPools]_vars

PoolCall ==
    last.op \in { "limDeactivateAndChangePerStaIdTimer", "limActivateCnfTimer",
                  "limActivateAuthRspTimer" }

Capacity(timerId) ==
    IF timerId = "eLIM_CNF_WAIT_TIMER" THEN lim.maxStation ELSE lim.numEntry

\* C8: a pool call with a slot index at or beyond the pool's capacity makes
\* no deactivate, change or activate call on any timer and logs the index
\* as invalid.
C8_IndexRejected ==
    (PoolCall /\ last.arg[1] \in { "eLIM_CNF_WAIT_TIMER", "eLIM_AUTH_RSP_TIMER" }
        /\ last.arg[2] >= Capacity(last.arg[1])) =>
    /\ last.trace = <<>>
    /\ last.log # <<>>

\* C9: a confirmation wait slot fires at most once for each activation
C9_OneExpiryPerActivation ==
    \A i \in StaIds :
        i < lim.maxStation => timers[CnfWait(i)].fires <= 1

---------------------------------------------------------------------------
(* Every reconfiguration, on timers that other calls may have started *)

NextReconfigure ==
    \/ \E junk \in Uninitialised : Free(limCreateTimers(NoFault, junk))
    \/ \E r \in ScanReqs : Counted(SetScanReq(r))
    \/ \E name \in Singletons : Counted(ActivateTimer(name))
    \/ \E staId \in StaIds : \E junkTimer \in JunkTimersFor(staId) :
          Counted(limActivateCnfTimer(staId, 0, junkTimer))
    \/ \E staId \in StaIds : Counted(limActivateAuthRspTimer(staId))
    \/ \E timerId \in TimerEnum : Counted(limDeactivateAndChangeTimer(timerId))
    \/ \E junk \in JunkFor("WNI_CFG_HEART_BEAT_THRESHOLD") :
          Counted(limHeartBeatDeactivateAndChangeTimer(junk))
    \/ \E timerId \in PerStaEnum, staId \in StaIds : \E junkTimer \in JunkTimersFor(staId) :
          Counted(limDeactivateAndChangePerStaIdTimer(timerId, staId, 0, junkTimer))

SpecReconfigure == Init /\ [][NextReconfigure]_vars

ReconfigureCall ==
    last.op \in { "limDeactivateAndChangeTimer", "limDeactivateAndChangePerStaIdTimer",
                  "limHeartBeatDeactivateAndChangeTimer" }

\* the timer a reconfiguration call is about
TargetOf(arg) ==
    CASE arg[1] = "eLIM_ADDTS_RSP_TIMER" -> T("gLimAddtsRspTimer")
      [] arg[1] = "eLIM_MIN_CHANNEL_TIMER" -> T("gLimMinChannelTimer")
      [] arg[1] = "eLIM_MAX_CHANNEL_TIMER" -> T("gLimMaxChannelTimer")
      [] arg[1] = "eLIM_JOIN_FAIL_TIMER" -> T("gLimJoinFailureTimer")
      [] arg[1] = "eLIM_AUTH_FAIL_TIMER" -> T("gLimAuthFailureTimer")
      [] arg[1] = "eLIM_ASSOC_FAIL_TIMER" -> T("gLimAssocFailureTimer")
      [] arg[1] = "eLIM_REASSOC_FAIL_TIMER" -> T("gLimReassocFailureTimer")
      [] arg[1] = "eLIM_HEART_BEAT_TIMER" -> T("gLimHeartBeatTimer")
      [] arg[1] = "eLIM_PROBE_AFTER_HB_TIMER" -> T("gLimProbeAfterHBTimer")
      [] arg[1] = "eLIM_KEEPALIVE_TIMER" -> T("gLimKeepaliveTimer")
      [] arg[1] = "eLIM_BACKGROUND_SCAN_TIMER" -> T("gLimBackgroundScanTimer")
      [] arg[1] = "eLIM_CHANNEL_SWITCH_TIMER" -> T("gLimChannelSwitchTimer")
      [] arg[1] = "eLIM_QUIET_BSS_TIMER" -> T("gLimQuietBssTimer")
      [] arg[1] = "eLIM_QUIET_TIMER" -> T("gLimQuietTimer")
      [] arg[1] = "eLIM_FT_PREAUTH_RSP_TIMER" -> T("gLimFTPreAuthRspTimer")
      [] arg[1] = "eLIM_REMAIN_CHN_TIMER" -> T("gLimRemainOnChannelTimer")
      [] arg[1] = "eLIM_CNF_WAIT_TIMER" -> CnfWait(arg[2])
      [] arg[1] = "eLIM_AUTH_RSP_TIMER" -> AuthRsp(arg[2])
      [] OTHER -> <<"none", 0>>

\* the kinds and the situations in which the call stops after the deactivate
DeactivateOnly ==
    \/ last.arg[1] = "eLIM_ADDTS_RSP_TIMER"
    \/ /\ last.arg[1] \in { "eLIM_MIN_CHANNEL_TIMER", "eLIM_MAX_CHANNEL_TIMER" }
       /\ ~lim.gpLimMlmScanReq.present
       /\ ~QuietRunningAndPermitted
       /\ ~(last.arg[1] = "eLIM_MAX_CHANNEL_TIMER" /\ lim.gLimSystemRole = "eLIM_AP_ROLE")
    \/ /\ last.arg[1] = "eLIM_CHANNEL_SWITCH_TIMER"
       /\ ~last.trace[1][3]

\* the calls that touch no timer: a kind the switch has no case for, or an
\* auth response index that is not in the table
NothingDone ==
    \/ TargetOf(last.arg) = <<"none", 0>>
    \/ last.arg[1] = "eLIM_AUTH_RSP_TIMER" /\ ~limGetPreAuthNodeFromIndex(lim, last.arg[2])

\* C10: a reconfigure call makes at most one deactivate and then at most
\* one change, both on its target timer and never the change first; it
\* stops after the deactivate for the ADDTS response timer, for the channel
\* dwell timers without scan request or quiet window, and for the channel
\* switch timer whose deactivate failed, and it does neither for a kind or
\* an index it does not know.
C10_DeactivateThenChange ==
    ReconfigureCall =>
        /\ Len(last.trace) <= 2
        /\ Len(last.trace) >= 1 =>
               last.trace[1][1] = "deactivate" /\ last.trace[1][2] = TargetOf(last.arg)
        /\ Len(last.trace) = 2 =>
               last.trace[2][1] = "change" /\ last.trace[2][2] = TargetOf(last.arg)
        /\ Len(last.trace) = 1 <=> (~NothingDone /\ DeactivateOnly)
        /\ Len(last.trace) = 0 <=> NothingDone

\* a running one-shot timer reconfigured: deactivated, then changed
C10_Witness ==
    /\ Called("limDeactivateAndChangeTimer", "eLIM_JOIN_FAIL_TIMER")
    /\ last.trace = << <<"deactivate", T("gLimJoinFailureTimer"), TRUE>>,
                       <<"change", T("gLimJoinFailureTimer"), TRUE>> >>
    /\ ~timers[T("gLimJoinFailureTimer")].active

\* C10 as stated: every reconfigure call of a kind and index the functions
\* handle makes a deactivate followed by a change
C10_AsStated ==
    (ReconfigureCall /\ ~NothingDone) =>
        /\ Len(last.trace) = 2
        /\ last.trace[1][1] = "deactivate"
        /\ last.trace[2][1] = "change"

---------------------------------------------------------------------------
(* The state a timer is in when a reconfiguration changes it *)

\* C11: whenever a reconfigure call applies change to a timer, that timer
\* is not running at that moment, also when the deactivate before it
\* reported a failure: the change is refused only for a timer that was
\* never created.
C11_ChangeOnInactive ==
    ReconfigureCall =>
        \A k \in 1 .. Len(last.trace) :
            last.trace[k][1] = "change" =>
                (last.trace[k][3] \/ ~timers[last.trace[k][2]].created)

\* a created timer that was not running is reconfigured: the deactivate
\* reports a failure and the change is applied to the stopped timer
C11_Witness ==
    /\ Called("limDeactivateAndChangeTimer", "eLIM_QUIET_BSS_TIMER")
    /\ last.trace = << <<"deactivate", T("gLimQuietBssTimer"), FALSE>>,
                       <<"change", T("gLimQuietBssTimer"), TRUE>> >>
    /\ timers[T("gLimQuietBssTimer")].created

---------------------------------------------------------------------------
(* Expiry: every callback, on a queue that other modules fill as well *)

\* one timer for each callback that is not started at creation
HandlerTimers ==
    { "gLimJoinFailureTimer", "gLimAddtsRspTimer", "gLimAssocFailureTimer",
      "gLimReassocFailureTimer", "gLimChannelSwitchTimer", "gLimQuietTimer",
      "gLimQuietBssTimer", "gLimKeepaliveTimer" }

NextExpiry ==
    \/ \E junk \in Uninitialised : Free(limCreateTimers(NoFault, junk))
    \/ \E name \in HandlerTimers : Counted(ActivateTimer(name))
    \/ \E staId \in StaIds : Counted(limActivateCnfTimer(staId, 0, NoTimer))
    \/ \E staId \in StaIds : Counted(limActivateAuthRspTimer(staId))
    \/ \E id \in TimerIds : Counted(TimerExpiry(id))
    \/ Free(PostOtherMsg)
    \/ Free(limProcessMessages)

SpecExpiry == Init /\ [][NextExpiry]_vars

Handlers ==
    { "limTimerHandler", "limAddtsResponseTimerHandler", "limAuthResponseTimerHandler",
      "limAssocFailureTimerHandler", "limUpdateOlbcCacheTimerHandler",
      "limSendDisassocFrameThresholdHandler", "limCnfWaitTmerHandler",
      "limKeepaliveTmerHandler", "limChannelSwitchTimerHandler",
      "limQuietTimerHandler", "limQuietBssTimerHandler" }

\* the step is the expiry of timer id
Fired(id) == last'.op \in Handlers /\ last'.arg = id /\ timers[id].active

\* C12: a callback makes one attempt to post one message and changes
\* nothing else: the fired timer is as the time source left it, with the
\* duration and reload it had, every other timer, every LIM field and the
\* configuration are as before, and the queue holds at most the one new
\* message.
C12_HandlerPostsOnly ==
    [][ \A id \in TimerIds :
          Fired(id) =>
            /\ timers' = [timers EXCEPT ![id] = AfterExpiry(timers[id])]
            /\ timers'[id].duration = timers[id].duration
            /\ timers'[id].reload = timers[id].reload
            /\ lim' = lim
            /\ cfg' = cfg
            /\ Len(last'.trace) = 1 /\ last'.trace[1][1] = "post"
            /\ msgQ' = IF last'.trace[1][3] THEN Append(msgQ, HandlerMsg(timers[id]))
                       ELSE msgQ ]_vars

\* the quiet timer has fired and its message is in the queue
C12_Witness ==
    /\ last.op = "limQuietTimerHandler"
    /\ last.trace = << <<"post", T("gLimQuietTimer"), TRUE>> >>
    /\ Len(msgQ) >= 1
    /\ msgQ[Len(msgQ)].type = "SIR_LIM_QUIET_TIMEOUT"
    /\ ~timers[T("gLimQuietTimer")].active

\* C13: when the post fails, the callback has made its one attempt, the
\* message is dropped and the failure is logged, whatever the timer.
C13_PostFailureLogged ==
    (last.op \in Handlers /\ ~last.trace[1][3]) =>
        /\ Len(last.trace) = 1
        /\ last.log # <<>>

---------------------------------------------------------------------------
(* Creation with one refused creation or allocation, and lookups that fail *)

\* the creations and the allocation one run of limCreateTimers can be refused
SingleFaults ==
    { NoFault, AllocFault } \cup { T(n) : n \in Singletons }
        \cup { CnfWait(i) : i \in 0 .. NumStations - 1 }
        \cup { AuthRsp(i) : i \in 0 .. NumStations - 1 }

CreateKeys ==
    { "WNI_CFG_ACTIVE_MINIMUM_CHANNEL_TIME", "WNI_CFG_ACTIVE_MAXIMUM_CHANNEL_TIME",
      "WNI_CFG_JOIN_FAILURE_TIMEOUT", "WNI_CFG_KEEPALIVE_TIMEOUT" }

NextCreate ==
    \/ \E fault \in SingleFaults, junk \in Uninitialised :
          Free(limCreateTimers(fault, junk))
    \/ \E key \in CreateKeys, r \in CfgResults : Counted(wlan_cfgSetInt(key, r))
    \/ \E timerId \in { "eLIM_JOIN_FAIL_TIMER", "eLIM_KEEPALIVE_TIMER" } :
          Counted(limDeactivateAndChangeTimer(timerId))

SpecCreate == Init /\ [][NextCreate]_vars

\* the timers limCreateTimers creates in the given role when nothing fails
StaOnlyTimers ==
    { "gLimChannelSwitchTimer", "gLimQuietTimer", "gLimQuietBssTimer",
      "gLimJoinFailureTimer", "gLimAssocFailureTimer", "gLimReassocFailureTimer",
      "gLimAddtsRspTimer", "gLimAuthFailureTimer", "gLimHeartBeatTimer",
      "gLimProbeAfterHBTimer", "gLimBackgroundScanTimer" }

ExpectedTimers(l) ==
    { T(n) : n \in IF l.gLimSystemRole = "eLIM_AP_ROLE"
                   THEN Singletons \ StaOnlyTimers ELSE Singletons }
        \cup { CnfWait(i) : i \in 0 .. l.maxStation - 1 }
        \cup { AuthRsp(i) : i \in 0 .. NumStations - 1 }

\* C14: when the creation of one timer fails in limCreateTimers, the
\* failure is logged and every other timer of the role is still created.
C14_CreationContinues ==
    (last.op = "limCreateTimers" /\ last.arg \in ExpectedTimers(lim)) =>
        /\ last.log # <<>>
        /\ \A id \in ExpectedTimers(lim) \ { last.arg } : timers[id].created

\* C15: the failed allocation of the pre-auth timer table is the one fatal
\* error of limCreateTimers: it stops the function, with the timers after
\* it not created and gLimTimersCreated not set, and no failed creation of
\* a timer does the same.
C15_AllocFailureOnlyFatal ==
    last.op = "limCreateTimers" =>
        /\ last.arg = AllocFault =>
              /\ lim.gLimTimersCreated = 0
              /\ \A n \in { "gLimUpdateOlbcCacheTimer", "gLimFTPreAuthRspTimer",
                            "gLimRemainOnChannelTimer" } : ~timers[T(n)].created
              /\ \A i \in StaIds : ~timers[AuthRsp(i)].created
        /\ last.arg # AllocFault => lim.gLimTimersCreated = 1

\* C17: when the lookup of a timer's configuration value fails, at creation
\* or in a reconfiguration, the failure is logged and the timer gets a
\* usable fallback duration, never zero.
C17_LookupFailureFallback ==
    /\ (last.op = "limCreateTimers" /\ last.arg = NoFault
            /\ ~cfg["WNI_CFG_ACTIVE_MAXIMUM_CHANNEL_TIME"].ok) =>
          /\ last.log # <<>>
          /\ timers[T("gLimMaxChannelTimer")].duration > 0
    /\ (Called("limDeactivateAndChangeTimer", "eLIM_JOIN_FAIL_TIMER")
            /\ ~cfg["WNI_CFG_JOIN_FAILURE_TIMEOUT"].ok) =>
          /\ last.log # <<>>
          /\ timers[T("gLimJoinFailureTimer")].duration > 0

---------------------------------------------------------------------------
(* Timers that run *)

\* the timers the program created (not the memory past the end of a pool)
OwnTimers ==
    { T(n) : n \in Singletons } \cup { CnfWait(i) : i \in 0 .. lim.maxStation - 1 }
        \cup { AuthRsp(i) : i \in 0 .. NumStations - 1 }

\* C16: a timer that is running has a duration above zero.
C16_ActiveHasDuration ==
    \A id \in OwnTimers : timers[id].active => timers[id].duration > 0

---------------------------------------------------------------------------
(* Stopping a timer whose messages may already be in the queue *)

NextCancel ==
    \/ \E junk \in Uninitialised : Free(limCreateTimers(NoFault, junk))
    \/ \E name \in HandlerTimers : Counted(ActivateTimer(name))
    \/ \E name \in Singletons : Counted(DeactivateTimer(name))
    \/ \E timerId \in TimerEnum : Counted(limDeactivateAndChangeTimer(timerId))
    \/ \E id \in TimerIds : Counted(TimerExpiry(id))
    \/ Free(limProcessMessages)

SpecCancel == Init /\ [][NextCancel]_vars

\* the timer a call stops, for the calls that stop one
Stopped(l) ==
    CASE l.op = "tx_timer_deactivate" -> l.arg
      [] l.op \in { "limDeactivateAndChangeTimer", "limDeactivateAndChangePerStaIdTimer",
                    "limHeartBeatDeactivateAndChangeTimer" } -> TargetOf(l.arg)
      [] OTHER -> <<"none", 0>>

\* C18: a deactivate, alone or in a reconfiguration, leaves its timer
\* stopped and the queue as it was, with the messages the timer posted
\* before still in it; and a timer that is stopped posts no message until
\* it is activated again.
C18_DeactivateCancels ==
    [][ \A id \in TimerIds :
          /\ Stopped(last') = id => (~timers'[id].active /\ msgQ' = msgQ)
          /\ ~timers[id].active => ~(last'.op \in Handlers /\ last'.arg = id) ]_vars

\* the keepalive timer is reconfigured while running, after it fired: it
\* is stopped and its message is still in the queue
C18_Witness ==
    /\ Called("limDeactivateAndChangeTimer", "eLIM_KEEPALIVE_TIMER")
    /\ last.trace[1] = <<"deactivate", T("gLimKeepaliveTimer"), TRUE>>
    /\ ~timers[T("gLimKeepaliveTimer")].active
    /\ \E k \in 1 .. Len(msgQ) : msgQ[k].type = "SIR_LIM_KEEPALIVE_TIMEOUT"

---------------------------------------------------------------------------
(* One-shot and repeating timers *)

Repeating ==
    { "gLimSendDisassocFrameThresholdTimer", "gLimKeepaliveTimer",
      "gLimBackgroundScanTimer", "gLimUpdateOlbcCacheTimer" }

\* C19: a timer with reload 0 that fires is stopped; a timer with a reload
\* interval that fires keeps running with the same interval, armed with
\* it, and its callback makes no activate call.  The disassociate
\* threshold, keepalive, background scan and OLBC cache timers are created
\* with a reload interval, every other timer with none.
C19_OneShotOrRepeating ==
    [][ /\ \A id \in TimerIds :
             Fired(id) =>
               /\ timers[id].reload = 0 => ~timers'[id].active
               /\ timers[id].reload > 0 =>
                     /\ timers'[id].active
                     /\ timers'[id].reload = timers[id].reload
                     /\ timers'[id].armed = timers[id].reload
               /\ \A k \in 1 .. Len(last'.trace) : last'.trace[k][1] # "activate"
        /\ last'.op = "limCreateTimers" =>
             \A id \in OwnTimers :
                 timers'[id].created =>
                     (timers'[id].reload > 0 <=> id[1] \in Repeating) ]_vars

\* the disassociate threshold timer has fired twice with no call in between
C19_Witness ==
    /\ last.op = "limSendDisassocFrameThresholdHandler"
    /\ timers[T("gLimSendDisassocFrameThresholdTimer")].fires = 2
    /\ timers[T("gLimSendDisassocFrameThresholdTimer")].active
    /\ ops = 2

---------------------------------------------------------------------------
(* What a reconfiguration leaves alone *)

\* the LIM fields a kind's reconfiguration may write
OwnFields(timerId) ==
    CASE timerId = "eLIM_KEEPALIVE_TIMER" -> { "keepAlive" }
      [] timerId = "eLIM_BACKGROUND_SCAN_TIMER" -> { "gLimBackgroundScanDisable" }
      [] timerId = "eLIM_ADDTS_RSP_TIMER" -> { "gLimAddtsRspTimerCount" }
      [] OTHER -> {}

---------------------------------------------------------------------------
(* The timers a successful limCreateTimers leaves behind, and their order *)

\* the singleton timers in the order limCreateTimers creates them
CreationOrder ==
    << "gLimMinChannelTimer", "gLimMaxChannelTimer", "gLimChannelSwitchTimer",
       "gLimQuietTimer", "gLimQuietBssTimer", "gLimJoinFailureTimer",
       "gLimAssocFailureTimer", "gLimReassocFailureTimer", "gLimAddtsRspTimer",
       "gLimAuthFailureTimer", "gLimHeartBeatTimer", "gLimProbeAfterHBTimer",
       "gLimBackgroundScanTimer", "gLimSendDisassocFrameThresholdTimer",
       "gLimKeepaliveTimer", "gLimUpdateOlbcCacheTimer", "gLimFTPreAuthRspTimer",
       "gLimRemainOnChannelTimer" >>

IsSingleton(e) == e[2][1] \in Singletons
InRole(n) == lim.gLimSystemRole # "eLIM_AP_ROLE" \/ n \notin StaOnlyTimers
CreatedSingletons == [ k \in 1 .. Len(SelectSeq(last.trace, IsSingleton)) |->
                         SelectSeq(last.trace, IsSingleton)[k][2][1] ]

\* C21: a run of limCreateTimers in which nothing fails creates the
\* singleton timers of the role in the one fixed order: all of them outside
\* the AP role, and in the AP role all but the channel switch, quiet, quiet
\* BSS, join, association, reassociation, ADDTS, auth failure, heartbeat,
\* probe-after-heartbeat and background scan timers, which stay uncreated.
C21_SingletonsOfRoleCreated ==
    (last.op = "limCreateTimers" /\ last.arg = NoFault) =>
        /\ CreatedSingletons = SelectSeq(CreationOrder, InRole)
        /\ \A n \in Singletons : timers[T(n)].created <=> InRole(n)

\* a successful run in the AP role: the shared timers exist, the join
\* failure timer does not
C21_Witness ==
    /\ last.op = "limCreateTimers" /\ last.arg = NoFault
    /\ lim.gLimSystemRole = "eLIM_AP_ROLE"
    /\ lim.gLimTimersCreated = 1
    /\ timers[T("gLimRemainOnChannelTimer")].created
    /\ ~timers[T("gLimJoinFailureTimer")].created

\* C21 as stated: after a run in which no creation fails every singleton
\* timer exists, whatever the role
C21_AsStated ==
    (last.op = "limCreateTimers" /\ last.arg = NoFault) =>
        \A n \in Singletons : timers[T(n)].created

---------------------------------------------------------------------------
(* The two periodic timers under fair time progress *)

PeriodicTimers == { "gLimBackgroundScanTimer", "gLimKeepaliveTimer" }
PeriodicKeys == { "WNI_CFG_BACKGROUND_SCAN_PERIOD", "WNI_CFG_KEEPALIVE_TIMEOUT" }
PeriodicEnums == { "eLIM_BACKGROUND_SCAN_TIMER", "eLIM_KEEPALIVE_TIMER" }

NextPeriodic ==
    \/ \E junk \in Uninitialised : Free(limCreateTimers(NoFault, junk))
    \/ \E key \in PeriodicKeys, r \in CfgResults : Counted(wlan_cfgSetInt(key, r))
    \/ \E e \in PeriodicEnums : Counted(limDeactivateAndChangeTimer(e))
    \/ \E name \in PeriodicTimers : Counted(ActivateTimer(name))
    \/ \E name \in PeriodicTimers : Counted(DeactivateTimer(name))
    \/ \E name \in PeriodicTimers : Free(TimerExpiry(T(name)))
    \/ Free(PostOtherMsg)
    \/ Free(limProcessMessages)

\* time passes: a running timer does expire
TimeProgress == \A name \in PeriodicTimers : WF_vars(Free(TimerExpiry(T(name))))

SpecPeriodic == Init /\ [][NextPeriodic]_vars /\ TimeProgress

\* the last step was the expiry of timer id
JustFired(id) == last.op \in Handlers /\ last.arg = id

\* the periodic timer name keeps firing: its expiry leaves it running, and
\* while it runs it fires again unless it is deactivated
KeepsFiring(name) ==
    /\ [](JustFired(T(name)) => timers[T(name)].active)
    /\ (timers[T(name)].active ~> (JustFired(T(name)) \/ ~timers[T(name)].active))

\* C22: once the background scan or the keepalive timer runs, it keeps
\* firing until it is deactivated: an expiry, with its message queued or
\* dropped, leaves the timer running, and a running timer fires again.
C22_PeriodicKeepsFiring == \A name \in PeriodicTimers : KeepsFiring(name)

\* the keepalive half of C22
KeepaliveKeepsFiring == KeepsFiring("gLimKeepaliveTimer")

---------------------------------------------------------------------------
(* Reconfiguring a timer that is not running *)

\* the reconfiguration of kind e has a duration to apply
HasDuration(e) ==
    /\ e # "eLIM_ADDTS_RSP_TIMER"
    /\ e = "eLIM_MIN_CHANNEL_TIMER" => (QuietWindow(lim) \/ lim.gpLimMlmScanReq.present)
    /\ e = "eLIM_MAX_CHANNEL_TIMER" =>
           \/ lim.gLimSystemRole = "eLIM_AP_ROLE"
           \/ QuietWindow(lim) \/ lim.gpLimMlmScanReq.present

\* the call limDeactivateAndChangeTimer(e) found its timer created and not
\* running
ReconfiguredInactive(e) ==
    /\ last.op = "limDeactivateAndChangeTimer" /\ last.arg[1] = e
    /\ TargetOf(last.arg) \in TimerIds
    /\ timers[TargetOf(last.arg)].created
    /\ last.trace # <<>>
    /\ last.trace[1] = <<"deactivate", TargetOf(last.arg), FALSE>>

\* C23: reconfiguring a created timer that is not running logs the failed
\* deactivate and still changes the timer to the resolved duration, for
\* every kind that has a duration to apply.
C23_InactiveReconfigureApplies ==
    \A e \in TimerEnum :
        (ReconfiguredInactive(e) /\ HasDuration(e)) =>
            /\ last.log # <<>>
            /\ Len(last.trace) = 2
            /\ last.trace[2] = <<"change", TargetOf(last.arg), TRUE>>

\* the same for every kind but the channel switch timer
InactiveReconfigureAppliesElsewhere ==
    \A e \in TimerEnum \ { "eLIM_CHANNEL_SWITCH_TIMER" } :
        (ReconfiguredInactive(e) /\ HasDuration(e)) =>
            /\ last.log # <<>>
            /\ Len(last.trace) = 2
            /\ last.trace[2] = <<"change", TargetOf(last.arg), TRUE>>

---------------------------------------------------------------------------
(* The debug clock under concurrent users: every sequence of calls up to   *)
(* the first calls made after clk_count has gone round its width           *)

\* clk_count says how many callers hold the clock
CountIsExact == qdss.users = qdss.clk_count

NextQdss ==
    \/ \E t \in Threads : qdss.users < MaxUsers /\ QdssLock(t, "qdss_clk_enable")
    \/ \E t \in Threads : CountIsExact /\ QdssLock(t, "qdss_clk_disable")
    \/ \E t \in Threads, rpmRet \in RpmResults : qdss_clk_enable(t, rpmRet)
    \/ \E t \in Threads, rpmRet \in RpmResults : qdss_clk_disable(t, rpmRet)
    \/ \E parsed \in BOOLEAN, val \in MaxClkInputs : max_clk_store(parsed, val)

SpecQdss == Init /\ [][NextQdss]_vars

\* the step is the return of a call of qdss_clk_enable / qdss_clk_disable
EnableReturns == last'.op = "qdss_clk_enable"
DisableReturns == last'.op = "qdss_clk_disable"

\* the one RPM request of the call that returned, for level value
RequestedOnly(trace, value) ==
    Len(trace) = 1 /\ trace[1][1] = "msm_rpmrs_set" /\ trace[1][2] = value

ClockLevel == IF qdss.max_clk # 0 THEN QDSS_CLK_ON_HSDBG ELSE QDSS_CLK_ON_DBG

\* C24: qdss_clk_enable asks the RPM for the clock exactly when clk_count
\* is 0 at the call, for the high-speed level when max_clk is nonzero and
\* the debug level otherwise; with clk_count > 0 it asks nothing; and a
\* call that succeeds returns 0 with clk_count one higher than before.
C24_EnableCounts ==
    [][ EnableReturns =>
          /\ qdss.clk_count = 0 => RequestedOnly(last'.trace, ClockLevel)
          /\ qdss.clk_count > 0 => last'.trace = <<>> /\ last'.ret = Num(0)
          /\ last'.ret = Num(0) => qdss'.clk_count = qdss.clk_count + 1 ]_vars

\* C24 for the calls made while the count is below the largest value of
\* its uint8_t field
EnableCountsBelowWidth ==
    [][ (EnableReturns /\ qdss.clk_count < U8 - 1) =>
          /\ qdss.clk_count = 0 => RequestedOnly(last'.trace, ClockLevel)
          /\ qdss.clk_count > 0 => last'.trace = <<>> /\ last'.ret = Num(0)
          /\ last'.ret = Num(0) => qdss'.clk_count = qdss.clk_count + 1 ]_vars

\* C25: when the RPM refuses the request of qdss_clk_enable, the call
\* returns the RPM's non-zero error and warns, clk_count is still 0, the RPM
\* level is as before and clk_mutex is free; and whenever a call starts with
\* clk_count 0 it makes the request, so the next call tries again.
C25_EnableFailure ==
    [][ (EnableReturns /\ qdss.clk_count = 0) =>
          /\ RequestedOnly(last'.trace, ClockLevel)
          /\ last'.trace[1][3] # 0 =>
                /\ last'.ret = Num(last'.trace[1][3])
                /\ last'.log = << "qdss clks not enabled" >>
                /\ qdss'.clk_count = 0
                /\ qdss'.rpm = qdss.rpm
                /\ qdss'.clk_mutex = 0 ]_vars

\* a refused request: the call has returned the error and the next caller
\* can take the mutex
C25_Witness ==
    /\ last.op = "qdss_clk_enable"
    /\ last.ret = Num(-5)
    /\ qdss.clk_count = 0 /\ qdss.clk_mutex = 0 /\ qdss.rpm = QDSS_CLK_OFF

\* C26: qdss_clk_disable asks the RPM to switch the clock off exactly when
\* clk_count is 1 at the call; with clk_count > 1 it asks nothing, leaves
\* the RPM level alone and takes one off the count.
C26_DisableCounts ==
    [][ DisableReturns =>
          /\ qdss.clk_count = 1 => RequestedOnly(last'.trace, QDSS_CLK_OFF)
          /\ qdss.clk_count # 1 => last'.trace = <<>>
          /\ qdss.clk_count > 1 =>
                /\ qdss'.clk_count = qdss.clk_count - 1
                /\ qdss'.rpm = qdss.rpm
                /\ last'.log = <<>> ]_vars

\* one of two users has let go of the clock: nothing was asked of the RPM
\* and the clock is still on
C26_Witness ==
    /\ last.op = "qdss_clk_disable"
    /\ last.trace = <<>> /\ last.log = <<>>
    /\ qdss.clk_count = 1 /\ qdss.rpm # QDSS_CLK_OFF

\* C27: qdss_clk_disable called with clk_count 0 warns and does nothing
\* else: clk_count is still 0, the RPM is not asked, max_clk and the RPM
\* level are as before and clk_mutex is free.
C27_UnbalancedDisable ==
    [][ (DisableReturns /\ qdss.clk_count = 0) =>
          /\ last'.log = << "qdss clks are unbalanced" >>
          /\ last'.trace = <<>>
          /\ qdss'.clk_count = 0
          /\ qdss'.rpm = qdss.rpm /\ qdss'.max_clk = qdss.max_clk
          /\ qdss'.clk_mutex = 0 ]_vars

\* an unbalanced call has returned
C27_Witness ==
    /\ last.op = "qdss_clk_disable"
    /\ last.log = << "qdss clks are unbalanced" >>
    /\ qdss.clk_count = 0 /\ qdss.clk_mutex = 0

---------------------------------------------------------------------------
(* Which timers run when limCreateTimers returns *)

\* the timers limCreateTimers creates with TX_AUTO_ACTIVATE in role r
AutoActivated(r) ==
    { T("gLimSendDisassocFrameThresholdTimer"), T("gLimUpdateOlbcCacheTimer") }
        \cup (IF r = "eLIM_AP_ROLE" THEN { T("gLimKeepaliveTimer") } ELSE {})

\* C28: when limCreateTimers returns, a timer that runs is the disassoc
\* threshold timer, the OLBC cache timer, or the keepalive timer in the AP
\* role; every other singleton and every pool slot is Inactive; and after a
\* run in which nothing failed exactly those timers run.
C28_InitialActivation ==
    last.op = "limCreateTimers" =>
        /\ \A id \in TimerIds : timers[id].active => id \in AutoActivated(lim.gLimSystemRole)
        /\ last.arg = NoFault =>
               \A id \in AutoActivated(lim.gLimSystemRole) : timers[id].active

\* creation in the STA role: the keepalive timer and the CNF wait slots
\* exist and do not run, the disassoc threshold and OLBC timers run
C28_Witness ==
    /\ last.op = "limCreateTimers" /\ last.arg = NoFault
    /\ lim.gLimSystemRole = "eLIM_STA_ROLE"
    /\ timers[T("gLimKeepaliveTimer")].created /\ ~timers[T("gLimKeepaliveTimer")].active
    /\ timers[CnfWait(0)].created /\ ~timers[CnfWait(0)].active
    /\ timers[T("gLimSendDisassocFrameThresholdTimer")].active
    /\ timers[T("gLimUpdateOlbcCacheTimer")].active

---------------------------------------------------------------------------
(* What a message in the queue says about the timer that fired *)

\* the timers that exist and have a callback
Callable == { id \in TimerIds : timers[id].created /\ timers[id].handler # "none" }

\* the message the step has put at the end of the queue
Enqueued == msgQ'[Len(msgQ')]

\* C29: the message a callback enqueues is one no other existing timer
\* would enqueue; a CNF wait slot i enqueues SIR_LIM_CNF_WAIT_TIMEOUT with
\* bodyval i; the association and reassociation failure timers enqueue
\* SIR_LIM_ASSOC_FAIL_TIMEOUT with bodyval LIM_ASSOC and LIM_REASSOC; and a
\* timer served by limTimerHandler enqueues the message type it was created
\* with and bodyval 0.
C29_EventIdentifiesTimer ==
    [][ \A id \in TimerIds :
          (Fired(id) /\ last'.trace[1][3]) =>
            /\ Len(msgQ') = Len(msgQ) + 1
            /\ \A other \in Callable \ { id } : HandlerMsg(timers[other]) # Enqueued
            /\ \A i \in StaIds :
                  id = CnfWait(i) =>
                      Enqueued = [type |-> "SIR_LIM_CNF_WAIT_TIMEOUT", bodyval |-> Num(i)]
            /\ id = T("gLimAssocFailureTimer") =>
                  Enqueued = [type |-> "SIR_LIM_ASSOC_FAIL_TIMEOUT",
                              bodyval |-> Sym("LIM_ASSOC")]
            /\ id = T("gLimReassocFailureTimer") =>
                  Enqueued = [type |-> "SIR_LIM_ASSOC_FAIL_TIMEOUT",
                              bodyval |-> Sym("LIM_REASSOC")]
            /\ last'.op = "limTimerHandler" =>
                  /\ Enqueued.bodyval = Num(0)
                  /\ Enqueued.type = timers[id].param[2] ]_vars

\* slot 1 of the CNF wait pool has fired and its message names it
C29_Witness ==
    /\ last.op = "limCnfWaitTmerHandler" /\ last.arg = CnfWait(1)
    /\ msgQ # <<>>
    /\ msgQ[Len(msgQ)] = [type |-> "SIR_LIM_CNF_WAIT_TIMEOUT", bodyval |-> Num(1)]
    /\ timers[CnfWait(0)].created

---------------------------------------------------------------------------
(* Restarting the heartbeat timer *)

NextReactivate ==
    \/ \E junk \in Uninitialised : Free(limCreateTimers(NoFault, junk))
    \/ \E r \in CfgResults : Free(wlan_cfgSetInt("WNI_CFG_HEART_BEAT_THRESHOLD", r))
    \/ \E v \in CfgVals : Free(SetBeaconInterval(v))
    \/ Free(RxBeacon)
    \/ \E junk \in Uninitialised : Counted(limReactivateHeartBeatTimer(junk))
    \/ Counted(limActivateHearBeatTimer)
    \/ Counted(DeactivateTimer("gLimHeartBeatTimer"))

SpecReactivate == Init /\ [][NextReactivate]_vars

HeartBeat == T("gLimHeartBeatTimer")

---------------------------------------------------------------------------
(* The two channel timers outside a quiet window *)

\* the channel time of the scan request that the dwell timer k takes
ChannelTimeOf(k) ==
    IF k[1] = "eLIM_MIN_CHANNEL_TIMER" THEN lim.gpLimMlmScanReq.minChannelTime
    ELSE lim.gpLimMlmScanReq.maxChannelTime

\* the dwell timer k was reconfigured outside a quiet window while a scan
\* request was there
DwellFromScanReq(k) ==
    /\ Called("limDeactivateAndChangeTimer", k[1])
    /\ ~QuietRunningAndPermitted
    /\ lim.gpLimMlmScanReq.present
    /\ timers[T(k[2])].created

\* C31: outside a quiet window and with a scan request, reconfiguring the
\* min or the max channel timer leaves it one-shot with the request's
\* minChannelTime or maxChannelTime in ticks as duration, in every role.
C31_DwellFromScanRequest ==
    \A k \in Dwell :
        DwellFromScanReq(k) =>
            /\ timers[T(k[2])].duration = SYS_MS_TO_TICKS(ChannelTimeOf(k))
            /\ timers[T(k[2])].reload = 0

\* the same outside the AP role
DwellFromScanRequestOutsideAp ==
    \A k \in Dwell :
        (DwellFromScanReq(k) /\ lim.gLimSystemRole # "eLIM_AP_ROLE") =>
            /\ timers[T(k[2])].duration = SYS_MS_TO_TICKS(ChannelTimeOf(k))
            /\ timers[T(k[2])].reload = 0

\* and for the min channel timer in every role
MinDwellFromScanRequest ==
    DwellFromScanReq(<<"eLIM_MIN_CHANNEL_TIMER", "gLimMinChannelTimer">>) =>
        timers[T("gLimMinChannelTimer")].duration =
            SYS_MS_TO_TICKS(lim.gpLimMlmScanReq.minChannelTime)

---------------------------------------------------------------------------
(* Periodicity over a timer's lifetime *)

\* timer id keeps the periodicity it was created with
KeepsPeriodicity(id) ==
    timers[id].created =>
        IF id[1] \in Repeating THEN timers[id].reload = timers[id].duration
        ELSE timers[id].reload = 0

\* C32: after creation and after any reconfiguration, the keepalive,
\* background scan, disassociate threshold and OLBC cache timers have a
\* reload interval equal to their duration, and every other timer, the CNF
\* wait and auth response slots included, has reload 0.
C32_PeriodicityFixed == \A id \in OwnTimers : KeepsPeriodicity(id)

\* the same for every timer but the CNF wait slots
PeriodicityFixedOutsideCnfWait ==
    \A id \in OwnTimers : id[1] # "gpLimCnfWaitTimer" => KeepsPeriodicity(id)

---------------------------------------------------------------------------
(* The ADDTS response timer and the count of its reconfigurations *)

NextAddts ==
    \/ \E junk \in Uninitialised : Free(limCreateTimers(NoFault, junk))
    \/ Counted(limDeactivateAndChangeTimer("eLIM_ADDTS_RSP_TIMER"))
    \/ \E timerId \in { "eLIM_JOIN_FAIL_TIMER", "eLIM_KEEPALIVE_TIMER" } :
          Free(limDeactivateAndChangeTimer(timerId))
    \/ Free(ActivateTimer("gLimAddtsRspTimer"))
    \/ Free(TimerExpiry(T("gLimAddtsRspTimer")))
    \/ Free(limProcessMessages)

SpecAddts == Init /\ [][NextAddts]_vars

Addts == T("gLimAddtsRspTimer")

\* the step is a reconfiguration of the ADDTS response timer
AddtsReconfigured ==
    last'.op = "limDeactivateAndChangeTimer" /\ last'.arg[1] = "eLIM_ADDTS_RSP_TIMER"

\* C33: a reconfiguration of the ADDTS response timer makes one deactivate
\* call and no change call, leaves the timer Inactive with the duration and
\* reload it had, and adds one to gLimAddtsRspTimerCount whether or not the
\* deactivate succeeded; no other step changes the count, which is the
\* number of those reconfigurations made so far.
C33_AddtsCount ==
    [][ /\ AddtsReconfigured =>
             /\ Len(last'.trace) = 1
             /\ last'.trace[1][1] = "deactivate" /\ last'.trace[1][2] = Addts
             /\ ~timers'[Addts].active
             /\ timers'[Addts].duration = timers[Addts].duration
             /\ timers'[Addts].reload = timers[Addts].reload
             /\ lim'.gLimAddtsRspTimerCount = lim.gLimAddtsRspTimerCount + 1
        /\ ~AddtsReconfigured =>
             lim'.gLimAddtsRspTimerCount = lim.gLimAddtsRspTimerCount
        /\ lim'.gLimAddtsRspTimerCount = ops' ]_vars

\* the second reconfiguration found the timer stopped and was counted
C33_Witness ==
    /\ last.op = "limDeactivateAndChangeTimer" /\ last.arg[1] = "eLIM_ADDTS_RSP_TIMER"
    /\ last.trace = << <<"deactivate", Addts, FALSE>> >>
    /\ timers[Addts].created /\ timers[Addts].duration > 0
    /\ lim.gLimAddtsRspTimerCount = 2

---------------------------------------------------------------------------
(* gLimTimersCreated *)

\* the timers whose failed creation makes limCreateTimers return
ReturningTimers ==
    { "gLimMinChannelTimer", "gLimMaxChannelTimer", "gLimChannelSwitchTimer",
      "gLimQuietTimer", "gLimQuietBssTimer", "gLimJoinFailureTimer",
      "gLimAssocFailureTimer", "gLimReassocFailureTimer", "gLimAddtsRspTimer",
      "gLimAuthFailureTimer", "gLimFTPreAuthRspTimer", "gLimRemainOnChannelTimer" }

\* the run of limCreateTimers that produced this state returned early
ReturnedEarly ==
    /\ last.op = "limCreateTimers"
    /\ \/ last.arg = AllocFault
       \/ \E n \in ReturningTimers : last.arg = T(n) /\ InRole(n)

\* C34: gLimTimersCreated is 1 only after limCreateTimers has run to its
\* end: it is 0 after a run that returned early, and whenever it is 1 each
\* of the timers whose failed creation returns exists, as far as the role
\* creates it.
C34_TimersCreatedFlag ==
    /\ ReturnedEarly => lim.gLimTimersCreated = 0
    /\ lim.gLimTimersCreated = 1 =>
          /\ Started
          /\ \A n \in ReturningTimers : InRole(n) => timers[T(n)].created

\* a run in the AP role whose only refused creation is not attempted in that
\* role: the flag is set, the shared timers exist
C34_Witness ==
    /\ last.op = "limCreateTimers" /\ last.arg = T("gLimQuietTimer")
    /\ lim.gLimSystemRole = "eLIM_AP_ROLE"
    /\ lim.gLimTimersCreated = 1
    /\ timers[T("gLimMinChannelTimer")].created
    /\ timers[T("gLimRemainOnChannelTimer")].created

\* C34 as stated: the flag is 0 after a run that returned early, and
\* whenever it is 1 each of those timers exists
C34_AsStated ==
    /\ ReturnedEarly => lim.gLimTimersCreated = 0
    /\ lim.gLimTimersCreated = 1 => \A n \in ReturningTimers : timers[T(n)].created

---------------------------------------------------------------------------
(* The pre-auth timer table *)

\* C35: a pre-auth timer table with a capacity above zero has its
\* storage allocated, also after the allocation failed in limCreateTimers.
C35_PreAuthTableConsistent == lim.numEntry > 0 => lim.pTable

\* the same after the runs of limCreateTimers whose allocation succeeded
PreAuthTableConsistentWhenAllocated ==
    (Started /\ ~(last.op = "limCreateTimers" /\ last.arg = AllocFault)
        /\ lim.gLimTimersCreated = 1) =>
            (lim.numEntry > 0 => lim.pTable)

---------------------------------------------------------------------------
(* The keepalive conversion on full 32-bit values.  A tANI_U32 is held as  *)
(* its two 16-bit halves <<high, low>>.                                    *)

\* how far from 0 and from 2^16 - 1 the low halves tried reach
MaxLow == 20

\* the value of a word that fits the checker's integers
Val32(w) == w[1] * U16 + w[2]

\* w + n in 32-bit unsigned arithmetic, for 0 <= n < 2^16
Add32(w, n) ==
    << (w[1] + (w[2] + n) \div U16) % U16, (w[2] + n) % U16 >>

\* SYS_MS_TO_TICKS on a 32-bit word: division by SYS_TICK_DUR_MS
SYS_MS_TO_TICKS_32(w) ==
    << w[1] \div SYS_TICK_DUR_MS,
       ((w[1] % SYS_TICK_DUR_MS) * U16 + w[2]) \div SYS_TICK_DUR_MS >>

\* a <= b on 32-bit words
Leq32(a, b) == a[1] < b[1] \/ (a[1] = b[1] /\ a[2] <= b[2])

\* val = SYS_MS_TO_TICKS(val + SYS_TICK_DUR_MS - 1), lines 478 and 1227
KeepaliveTicks32(w) == SYS_MS_TO_TICKS_32(Add32(w, SYS_TICK_DUR_MS - 1))

\* the configuration values tried: small ones, ones around 2^16 and the
\* largest ones a tANI_U32 holds
Words32 ==
    { <<h, l>> : h \in { 0, 1, U16 - 1 },
                 l \in (0 .. MaxLow) \cup ((U16 - 1 - MaxLow) .. (U16 - 1)) }

\* the keepalive conversion applied to a value read from the configuration
KeepaliveConversion(w) ==
    /\ last' = [op |-> "SYS_MS_TO_TICKS", arg |-> w, trace |-> <<>>, log |-> <<>>,
                ret |-> KeepaliveTicks32(w)]
    /\ UNCHANGED <<timers, lim, cfg, msgQ, started>>

NextKeepAliveWidth == \E w \in Words32 : Free(KeepaliveConversion(w))

SpecKeepAliveWidth == Init /\ [][NextKeepAliveWidth]_vars

Converted == last.op = "SYS_MS_TO_TICKS"

\* C36: for a nonzero 32-bit timeout v the keepalive duration is at least
\* one tick and not below v / tick_ms.
C36_CeilingKeepsTimeout ==
    (Converted /\ last.arg # <<0, 0>>) =>
        /\ last.ret # <<0, 0>>
        /\ Leq32(SYS_MS_TO_TICKS_32(last.arg), last.ret)

\* the same for the values v with v + tick_ms - 1 below 2^32
CeilingKeepsTimeoutUnwrapped ==
    (Converted /\ last.arg # <<0, 0>>
        /\ Leq32(last.arg, <<U16 - 1, U16 - SYS_TICK_DUR_MS>>)) =>
            /\ last.ret # <<0, 0>>
            /\ Leq32(SYS_MS_TO_TICKS_32(last.arg), last.ret)

\* on the values the other specifications use, the conversion on halves is
\* the conversion on integers
ConversionAgrees ==
    (Converted /\ last.arg[1] <= 1) =>
        Val32(last.ret) = SYS_MS_TO_TICKS(Wrap32(Val32(last.arg) + SYS_TICK_DUR_MS - 1))

---------------------------------------------------------------------------
(* The RPM requests against the callers that hold the clock *)

\* every RPM request of the step is justified by the callers holding the
\* clock: off when the last of them lets go, on when the first one comes
RequestsBalanced ==
    \A k \in 1 .. Len(last'.trace) :
        IF last'.trace[k][2] = QDSS_CLK_OFF
        THEN qdss.users = 1 /\ qdss'.users = 0
        ELSE qdss.users = 0 /\ (last'.trace[k][3] = 0 => qdss'.users = 1)

\* C37: the RPM is asked to switch the clock off only by the call that
\* brings the callers holding the clock (successful enables less disables)
\* down to 0, and asked to switch it on only by a call made while nobody
\* holds it, however many callers hold the clock.
C37_RequestsBalanced ==
    [][ (EnableReturns \/ DisableReturns) => RequestsBalanced ]_vars

\* the same while fewer callers hold the clock than clk_count can count
RequestsBalancedBelowWidth ==
    [][ ((EnableReturns \/ DisableReturns) /\ qdss.users < U8) => RequestsBalanced ]_vars

\* C39: whenever clk_count is 0 the RPM holds the clock off.
C39_ZeroCountMeansOff == qdss.clk_count = 0 => qdss.rpm = QDSS_CLK_OFF

\* a state with clk_count 0 and the clock on is entered only by a
\* qdss_clk_disable whose RPM request was refused or by the
\* qdss_clk_enable that takes clk_count round its width
ZeroCountOnExplained ==
    [][ (qdss'.clk_count = 0 /\ qdss'.rpm # QDSS_CLK_OFF) =>
          \/ qdss.clk_count = 0 /\ qdss.rpm # QDSS_CLK_OFF
          \/ DisableReturns /\ last'.trace # <<>> /\ last'.trace[1][3] # 0
          \/ EnableReturns /\ qdss.clk_count = U8 - 1 ]_vars


---------------------------------------------------------------------------
(* Concurrent callers of qdss_clk_enable and qdss_clk_disable *)

NextQdssThreads ==
    \/ \E t \in Threads : qdss.users < MaxHolders /\ QdssCall(t, "qdss_clk_enable")
    \/ \E t \in Threads : QdssCall(t, "qdss_clk_disable")
    \/ \E t \in Threads, call \in QdssCalls : QdssAcquire(t, call)
    \/ \E t \in Threads, call \in QdssCalls, rpmRet \in RpmResults : QdssTest(t, call, rpmRet)
    \/ \E t \in Threads, call \in QdssCalls : QdssStore(t, call)

\* a thread that holds clk_mutex keeps running and msm_rpmrs_set returns;
\* a thread asleep in mutex_lock is on the wait list of clk_mutex and gets
\* the mutex at some unlock
QdssProgress ==
    \A t \in Threads :
        /\ WF_vars(\E call \in QdssCalls, rpmRet \in RpmResults : QdssTest(t, call, rpmRet))
        /\ WF_vars(\E call \in QdssCalls : QdssStore(t, call))
        /\ SF_vars(\E call \in QdssCalls : QdssAcquire(t, call))

SpecQdssThreads == Init /\ [][NextQdssThreads]_vars /\ QdssProgress

\* thread t is between mutex_lock and mutex_unlock
InSection(t) ==
    \E call \in QdssCalls : qdss.pc[t] \in { call, Storing(call) }

\* one thread at most is in the section, it is the holder of clk_mutex, and
\* the value it is about to store is one off the clk_count that is there
MutualExclusion ==
    /\ \A t, u \in Threads : (InSection(t) /\ InSection(u)) => t = u
    /\ \A t \in Threads : InSection(t) <=> qdss.clk_mutex = t
    /\ \A t \in Threads :
         /\ qdss.pc[t] = Storing("qdss_clk_enable") =>
                qdss.reg[t].count = (qdss.clk_count + 1) % U8
         /\ qdss.pc[t] = Storing("qdss_clk_disable") =>
                qdss.reg[t].count = (qdss.clk_count + U8 - 1) % U8

\* a return leaves clk_mutex free and the caller outside; the call has
\* asked the RPM exactly when it found clk_count 0 (enable) or 1 (disable);
\* and clk_count moves by the one step of the call, and only then
CallsAreAtomic ==
    /\ (EnableReturns \/ DisableReturns) =>
            qdss'.clk_mutex = 0 /\ qdss'.pc[last'.arg[1]] = "idle"
    /\ EnableReturns =>
         /\ (last'.trace # <<>>) <=> (qdss.clk_count = 0)
         /\ qdss'.clk_count = IF last'.ret = Num(0) THEN (qdss.clk_count + 1) % U8
                              ELSE qdss.clk_count
    /\ DisableReturns =>
         /\ (last'.trace # <<>>) <=> (qdss.clk_count = 1)
         /\ \A k \in 1 .. Len(last'.trace) : last'.trace[k][2] = QDSS_CLK_OFF
         /\ qdss'.clk_count = IF qdss.clk_count = 0 THEN 0 ELSE qdss.clk_count - 1
    /\ ~(EnableReturns \/ DisableReturns) => qdss'.clk_count = qdss.clk_count

\* every call that has been made returns
CallsReturn ==
    \A t \in Threads : (qdss.pc[t] # "idle") ~> (qdss.pc[t] = "idle")

============================================================================
